---- MODULE Spec2Model ----
(***************************************************************************)
(* TradeMaster: the authentication / token subsystem of the server, and    *)
(* the web client's handling of its tokens.                                *)
(*                                                                         *)
(* State: the users table (paranoid, i.e. soft-deleting), the in-memory    *)
(* resetTokens map, the wall clock, and the request handlers in flight.    *)
(* A handler is an async function: it runs without interruption up to an   *)
(* awaited I/O operation (a database query, a bcrypt call), and other      *)
(* handlers run while it is suspended.  Each action below is one such      *)
(* uninterrupted run of one handler.                                       *)
(*                                                                         *)
(* The web client is one browser tab: the auth slice of its redux store,   *)
(* the token of its HTTP client, the browser's storage and the HTTP calls  *)
(* it has in flight.                                                       *)
(***************************************************************************)
EXTENDS Integers, Sequences, FiniteSets, TLC

VARIABLES
  now,            \* Date.now(), in clock ticks
  refreshSecret,  \* JWT_REFRESH_SECRET as read from the environment at load
  users,          \* rows of the users table
  resetTokens,    \* the resetTokens map, as a set of entries
  nextToken,      \* how many reset tokens crypto.randomBytes has produced
  issued,         \* every JWT handed to a client so far (what clients hold)
  req,            \* the handlers in flight, one per request slot
  auth,           \* store.getState().auth of the web client
  authToken,      \* config.authToken of the client's TMAxios instance
  localStorage,   \* the keys 'authToken' and 'refreshToken' of localStorage
  sessionStorage, \* the key 'authToken' of sessionStorage
  calls,          \* the HTTP calls of the client, in the order they were made
  config,         \* config.retry of the client's TMAxios instance
  retryCount,     \* the retryCount map of the TMAxios instance
  requests,       \* the requests made through the TMAxios instance
  requestCache,   \* the requestCache map of the NetworkService
  gets            \* the GETs made through the NetworkService

\* the state of the web client
clientVars == <<auth, authToken, localStorage, sessionStorage, calls>>

\* the state of the client's HTTP services
serviceVars == <<config, retryCount, requests, requestCache, gets>>

vars == <<now, refreshSecret, users, resetTokens, nextToken, issued, req, clientVars, serviceVars>>

----------------------------------------------------------------------------
(* Bounds of the model *)

\* last clock tick explored
MaxTime == 4
\* clock ticks per JWT NumericDate second (Date.now() is in ms: 1000 in the source)
TicksPerSecond == 2
\* access-token lifetime in seconds ('7d' in the source, scaled)
JWT_EXPIRES_IN == 1
\* refresh-token lifetime in seconds ('30d' in the source, scaled)
JWT_REFRESH_EXPIRES_IN == 2
\* reset-token lifetime in ticks (60 * 60 * 1000 ms in the source, scaled)
RESET_TTL == 1
\* number of reset tokens that can be created
MaxResetTokens == 2
\* distinct JWTs that can be issued
MaxIssued == 4

----------------------------------------------------------------------------
(* Values *)

JWT_SECRET == "trademaster_jwt_secret_key_dev_only"
JWT_REFRESH_SECRET_DEFAULT == "trademaster_refresh_secret_key_dev_only"

\* e-mail addresses as character sequences
EmailA  == <<"a", "@", "b", ".", "c">>
EmailX  == <<"x", "@", "y", ".", "z">>
EmailBad == <<"a", "@", "b">>
NoEmail == <<>>

\* /^[^\s@]+@[^\s@]+\.[^\s@]+$/
IsPlain(ch) == ch # "@" /\ ch # " "
emailRegex(e) ==
  \E i \in 1..Len(e) : \E j \in 1..Len(e) :
    /\ e[i] = "@" /\ e[j] = "."
    /\ 1 < i /\ i + 1 < j /\ j < Len(e)
    /\ \A k \in 1..Len(e) : k # i => IsPlain(e[k])

\* passwords; the empty string is a missing (falsy) field
Passwords == {"secret1", "hunter22"}
PasswordInputs == Passwords \cup {"", "short"}
Salts == {"saltA", "saltB"}

\* bcrypt.hash(plain, 10): the stored hash carries the salt drawn for it
bcryptHash(plain, salt) == [plain |-> plain, salt |-> salt]
\* bcrypt.compare(candidate, hash)
bcryptCompare(candidate, hash) == bcryptHash(candidate, hash.salt) = hash

NoHash == [plain |-> "", salt |-> ""]
NoId == 0
UserIds == {1}

\* a row of the users table; deletedAt is set by a paranoid destroy
Row(id, email, password, deletedAt) ==
  [id |-> id, email |-> email, password |-> password, deletedAt |-> deletedAt]
\* null, as returned by a query that finds no row
NoRow == Row(NoId, NoEmail, NoHash, FALSE)

\* user.toJSON() with the password removed: const { password: _, ...userWithoutPassword }
userWithoutPassword(row) == [id |-> row.id, email |-> row.email]

\* mutant of findByPk: the model not paranoid, soft-deleted rows are found
findByPk_notParanoid(id) ==
  IF \E u \in users : u.id = id
  THEN CHOOSE u \in users : u.id = id
  ELSE NoRow

\* User.findByPk(id): paranoid models leave soft-deleted rows out
findByPk(id) ==
  IF \E u \in users : u.id = id /\ ~u.deletedAt
  THEN CHOOSE u \in users : u.id = id /\ ~u.deletedAt
  ELSE NoRow

\* User.findOne({ where: { email } })
findOne(email) ==
  IF \E u \in users : u.email = email /\ ~u.deletedAt
  THEN CHOOSE u \in users : u.email = email /\ ~u.deletedAt
  ELSE NoRow

\* attributes: { exclude: ['password'] }
excludePassword(row) == [row EXCEPT !.password = NoHash]

\* getUserByEmailQuery(email, includePassword, userId)
getUserByEmailQuery(email, includePassword, userId) ==
  LET row == IF userId # NoId THEN findByPk(userId) ELSE findOne(email)
  IN  IF includePassword THEN row ELSE excludePassword(row)

----------------------------------------------------------------------------
(* JSON web tokens.  The HS256 signature is modelled by the key field: a   *)
(* token verifies under a secret exactly when it was signed with it.       *)

\* Math.floor(Date.now() / 1000), the NumericDate clock of jsonwebtoken
clockTimestamp == now \div TicksPerSecond

NoJwt ==
  [userId |-> NoId, email |-> NoEmail, type |-> "", iat |-> 0, exp |-> 0,
   iss |-> "", aud |-> "", key |-> ""]

\* jwt.sign(payload, secret, { expiresIn, issuer, audience })
jwtSign(userId, email, type, secret, expiresIn) ==
  [userId |-> userId, email |-> email, type |-> type,
   iat |-> clockTimestamp, exp |-> clockTimestamp + expiresIn,
   iss |-> "trademaster", aud |-> "trademaster-users", key |-> secret]

\* mutant of jwtVerify: a clock tolerance of one second
jwtVerify_clockTolerance(token, secret) ==
  IF /\ token.key = secret
     /\ clockTimestamp < token.exp + 1
     /\ token.iss = "trademaster"
     /\ token.aud = "trademaster-users"
  THEN token
  ELSE NoJwt

\* jwt.verify(token, secret, { issuer, audience }); NoJwt stands for a throw
jwtVerify(token, secret) ==
  IF /\ token.key = secret
     /\ clockTimestamp < token.exp
     /\ token.iss = "trademaster"
     /\ token.aud = "trademaster-users"
  THEN token
  ELSE NoJwt

generateAccessToken(userId, email) ==
  jwtSign(userId, email, "access", JWT_SECRET, JWT_EXPIRES_IN)

generateRefreshToken(userId, email) ==
  jwtSign(userId, email, "refresh", refreshSecret, JWT_REFRESH_EXPIRES_IN)

generateTokens(userId, email) ==
  [accessToken |-> generateAccessToken(userId, email),
   refreshToken |-> generateRefreshToken(userId, email),
   expiresIn |-> JWT_EXPIRES_IN]

\* mutant of verifyAccessToken: the token's user is looked up as well
verifyAccessToken_liveUser(token) ==
  LET decoded == jwtVerify(token, JWT_SECRET)
  IN  IF decoded = NoJwt THEN NoJwt
      ELSE IF decoded.type # "access" THEN NoJwt
      ELSE IF findByPk(decoded.userId) = NoRow THEN NoJwt
      ELSE decoded

\* null is NoJwt
verifyAccessToken(token) ==
  LET decoded == jwtVerify(token, JWT_SECRET)
  IN  IF decoded = NoJwt THEN NoJwt
      ELSE IF decoded.type # "access" THEN NoJwt
      ELSE decoded

\* mutant of verifyRefreshToken: the check of decoded.type left out
verifyRefreshToken_anyType(token) == jwtVerify(token, refreshSecret)

verifyRefreshToken(token) ==
  LET decoded == jwtVerify(token, refreshSecret)
  IN  IF decoded = NoJwt THEN NoJwt
      ELSE IF decoded.type # "refresh" THEN NoJwt
      ELSE decoded

\* the Authorization header: absent, or a scheme word followed by a token
NoHeader == [present |-> FALSE, scheme |-> "", token |-> NoJwt]
Header(scheme, token) == [present |-> TRUE, scheme |-> scheme, token |-> token]

\* extractTokenFromHeader: null (NoJwt) unless the header starts with 'Bearer '
extractTokenFromHeader(authHeader) ==
  IF ~authHeader.present \/ authHeader.scheme # "Bearer" THEN NoJwt
  ELSE authHeader.token

----------------------------------------------------------------------------
(* The reset-token registry: const resetTokens = new Map()                 *)

\* crypto.randomBytes(32).toString('hex'): the k-th token drawn is k, never drawn twice
ResetTokenIds == 1..MaxResetTokens
\* a missing (falsy) token field of the request body
MissingToken == 0
\* a token string the server never produced
UnknownToken == MaxResetTokens + 1

Entry(token, userId, expires) == [token |-> token, userId |-> userId, expires |-> expires]
NoEntry == Entry(MissingToken, NoId, 0)

\* resetTokens.get(token); undefined is NoEntry
resetTokensGet(token) ==
  IF \E e \in resetTokens : e.token = token
  THEN CHOOSE e \in resetTokens : e.token = token
  ELSE NoEntry

\* createPasswordResetTokenQuery(userId): the map after the call, the new token being nextToken
createPasswordResetTokenQuery(userId) ==
  LET expires == now + RESET_TTL
      stored == resetTokens \cup {Entry(nextToken, userId, expires)}
  IN  {e \in stored : ~(e.expires < now)}

\* mutant of verifyPasswordResetTokenQuery: the expiry check left out
verifyPasswordResetTokenQuery_noExpiry(token) ==
  LET tokenData == resetTokensGet(token)
  IN  IF tokenData = NoEntry THEN NoId ELSE tokenData.userId

\* verifyPasswordResetTokenQuery(token): the user id returned, NoId for null
verifyPasswordResetTokenQuery(token) ==
  LET tokenData == resetTokensGet(token)
  IN  IF tokenData = NoEntry THEN NoId
      ELSE IF tokenData.expires < now THEN NoId
      ELSE tokenData.userId

\* verifyPasswordResetTokenQuery(token): the map after the call
verifyPasswordResetTokenDelete(token) ==
  LET tokenData == resetTokensGet(token)
  IN  IF tokenData # NoEntry /\ tokenData.expires < now
      THEN resetTokens \ {tokenData}
      ELSE resetTokens

\* resetUserPasswordQuery: "Remove all reset tokens for this user"
removeResetTokensOf(userId) == {e \in resetTokens : e.userId # userId}

----------------------------------------------------------------------------
(* Request handlers *)

\* the request slots: two handlers can be in flight together
Reqs == {1, 2}

NoBody == [none |-> TRUE]
IdleReq ==
  [kind |-> "", pc |-> "idle",
   \* inputs: body and header fields, route parameter
   email |-> NoEmail, password |-> "", currentPassword |-> "", token |-> MissingToken,
   refreshToken |-> NoJwt, authorization |-> NoHeader, id |-> NoId,
   \* locals that live across an await
   user |-> NoRow, userId |-> NoId, decoded |-> NoJwt,
   \* the response sent
   status |-> 0, body |-> NoBody,
   \* history: whether the account the request is about was already
   \* soft-deleted when the handler started, whether its lookup found a row,
   \* whether the handler replaced a password, whether a live account had
   \* the e-mail of the request when the handler started, and whether the
   \* handler inserted a row
   gone |-> FALSE, found |-> FALSE, changed |-> FALSE,
   taken |-> FALSE, created |-> FALSE]

Free(r) == req[r].pc \in {"idle", "done"}

\* a new handler of this kind
Arrive(kind) == [IdleReq EXCEPT !.kind = kind]

\* res.status(status).json(body) and return: the handler's locals are gone
Responded(q, status, body) ==
  [q EXCEPT !.pc = "done", !.status = status, !.body = body,
            !.user = NoRow, !.decoded = NoJwt]

\* the same, for a handler whose request carried a new password: the server
\* keeps no trace of it
RespondedReset(q, status, body) == [Responded(q, status, body) EXCEPT !.password = ""]

Error(text) == [error |-> text]
ErrorCode(text, code) == [error |-> text, code |-> code]
Message(text) == [message |-> text]

\* the account with this e-mail / this id exists only as a soft-deleted row
GoneEmail(email) ==
  /\ \E u \in users : u.email = email /\ u.deletedAt
  /\ ~\E u \in users : u.email = email /\ ~u.deletedAt
GoneId(id) ==
  /\ \E u \in users : u.id = id /\ u.deletedAt
  /\ ~\E u \in users : u.id = id /\ ~u.deletedAt

----------------------------------------------------------------------------
(* POST /auth/signin *)

signinStart(r, email, password) ==
  /\ Free(r)
  /\ LET q == [Arrive("signin") EXCEPT
                 !.email = email, !.password = password, !.gone = GoneEmail(email)]
     IN  req' = [req EXCEPT ![r] =
           IF email = NoEmail \/ password = ""
           THEN Responded(q, 400, Error("Email and password are required"))
           ELSE IF ~emailRegex(email)
           THEN Responded(q, 400, Error("Invalid email format"))
           ELSE [q EXCEPT !.pc = "signin_getUser"]]
  /\ UNCHANGED <<now, refreshSecret, users, resetTokens, nextToken, issued, clientVars, serviceVars>>

\* mutant of signinGetUser: an unknown e-mail is answered 404 "User not found"
signinGetUser_reveals(r) ==
  /\ req[r].pc = "signin_getUser"
  /\ LET q == req[r]
         user == getUserByEmailQuery(q.email, TRUE, NoId)
     IN  req' = [req EXCEPT ![r] =
           IF user = NoRow
           THEN Responded(q, 404, Error("User not found"))
           ELSE [q EXCEPT !.pc = "signin_compare", !.user = user, !.found = TRUE]]
  /\ UNCHANGED <<now, refreshSecret, users, resetTokens, nextToken, issued, clientVars, serviceVars>>

\* const user = await getUserByEmailQuery(email, true)
signinGetUser(r) ==
  /\ req[r].pc = "signin_getUser"
  /\ LET q == req[r]
         user == getUserByEmailQuery(q.email, TRUE, NoId)
     IN  req' = [req EXCEPT ![r] =
           IF user = NoRow
           THEN Responded(q, 401, Error("Invalid email or password"))
           ELSE [q EXCEPT !.pc = "signin_compare", !.user = user, !.found = TRUE]]
  /\ UNCHANGED <<now, refreshSecret, users, resetTokens, nextToken, issued, clientVars, serviceVars>>

\* const isPasswordValid = await bcrypt.compare(password, user.password), and the rest
signinCompare(r) ==
  /\ req[r].pc = "signin_compare"
  /\ LET q == req[r]
         isPasswordValid == bcryptCompare(q.password, q.user.password)
         tokens == generateTokens(q.user.id, q.user.email)
     IN  IF ~isPasswordValid
         THEN /\ req' = [req EXCEPT ![r] =
                   Responded(q, 401, Error("Invalid email or password"))]
              /\ UNCHANGED issued
         ELSE /\ Cardinality(issued \cup {tokens.accessToken, tokens.refreshToken}) <= MaxIssued
              /\ issued' = issued \cup {tokens.accessToken, tokens.refreshToken}
              /\ req' = [req EXCEPT ![r] =
                   Responded(q, 200,
                     [data |-> [user |-> userWithoutPassword(q.user),
                                accessToken |-> tokens.accessToken,
                                refreshToken |-> tokens.refreshToken,
                                expiresIn |-> tokens.expiresIn],
                      message |-> "Signin successful"])]
  /\ UNCHANGED <<now, refreshSecret, users, resetTokens, nextToken, clientVars, serviceVars>>

----------------------------------------------------------------------------
(* POST /auth/forgot-password *)

forgotPasswordStart(r, email) ==
  /\ Free(r)
  /\ LET q == [Arrive("forgotPassword") EXCEPT !.email = email]
     IN  req' = [req EXCEPT ![r] =
           IF email = NoEmail
           THEN Responded(q, 400, Error("Email is required"))
           ELSE IF ~emailRegex(email)
           THEN Responded(q, 400, Error("Invalid email format"))
           ELSE [q EXCEPT !.pc = "forgot_getUser"]]
  /\ UNCHANGED <<now, refreshSecret, users, resetTokens, nextToken, issued, clientVars, serviceVars>>

\* mutant of forgotPasswordGetUser: an unknown e-mail is answered 404
forgotPasswordGetUser_reveals(r) ==
  /\ req[r].pc = "forgot_getUser"
  /\ LET q == req[r]
         user == getUserByEmailQuery(q.email, FALSE, NoId)
     IN  req' = [req EXCEPT ![r] =
           IF user = NoRow
           THEN Responded(q, 404, Error("User not found"))
           ELSE [q EXCEPT !.pc = "forgot_create", !.user = user, !.found = TRUE]]
  /\ UNCHANGED <<now, refreshSecret, users, resetTokens, nextToken, issued, clientVars, serviceVars>>

\* const user = await getUserByEmailQuery(email)
forgotPasswordGetUser(r) ==
  /\ req[r].pc = "forgot_getUser"
  /\ LET q == req[r]
         user == getUserByEmailQuery(q.email, FALSE, NoId)
     IN  req' = [req EXCEPT ![r] =
           IF user = NoRow
           THEN Responded(q, 200, Message("If the email exists, a reset link has been sent"))
           ELSE [q EXCEPT !.pc = "forgot_create", !.user = user, !.found = TRUE]]
  /\ UNCHANGED <<now, refreshSecret, users, resetTokens, nextToken, issued, clientVars, serviceVars>>

\* const resetToken = await createPasswordResetTokenQuery(user.id), and the rest
forgotPasswordCreate(r) ==
  /\ req[r].pc = "forgot_create"
  /\ nextToken <= MaxResetTokens
  /\ resetTokens' = createPasswordResetTokenQuery(req[r].user.id)
  /\ nextToken' = nextToken + 1
  /\ req' = [req EXCEPT ![r] =
       Responded([req[r] EXCEPT !.token = nextToken], 200,
                 Message("Password reset link has been sent to your email"))]
  /\ UNCHANGED <<now, refreshSecret, users, issued, clientVars, serviceVars>>

----------------------------------------------------------------------------
(* POST /auth/reset-password *)

\* mutant of resetPasswordStart: the token is looked up and consumed before
\* the body is checked
resetPasswordStart_consumeFirst(r, token, newPassword) ==
  /\ Free(r)
  /\ LET q == [Arrive("resetPassword") EXCEPT !.token = token, !.password = newPassword]
         userId == verifyPasswordResetTokenQuery(token)
     IN  /\ resetTokens' = {e \in resetTokens : e.token # token}
         /\ req' = [req EXCEPT ![r] =
              IF token = MissingToken \/ newPassword = ""
              THEN RespondedReset(q, 400, Error("Reset token and new password are required"))
              ELSE IF Len(newPassword) < 6
              THEN RespondedReset(q, 400, Error("New password must be at least 6 characters long"))
              ELSE IF userId = NoId
              THEN RespondedReset(q, 400, Error("Invalid or expired reset token"))
              ELSE [q EXCEPT !.pc = "reset_findByPk", !.userId = userId]]
  /\ UNCHANGED <<now, refreshSecret, users, nextToken, issued, clientVars, serviceVars>>

\* the body checks and verifyPasswordResetTokenQuery, which awaits nothing
resetPasswordStart(r, token, newPassword) ==
  /\ Free(r)
  /\ LET q == [Arrive("resetPassword") EXCEPT !.token = token, !.password = newPassword]
         userId == verifyPasswordResetTokenQuery(token)
     IN  IF token = MissingToken \/ newPassword = ""
         THEN /\ req' = [req EXCEPT ![r] =
                   RespondedReset(q, 400, Error("Reset token and new password are required"))]
              /\ UNCHANGED <<resetTokens>>
         ELSE IF Len(newPassword) < 6
         THEN /\ req' = [req EXCEPT ![r] =
                   RespondedReset(q, 400, Error("New password must be at least 6 characters long"))]
              /\ UNCHANGED <<resetTokens>>
         ELSE /\ resetTokens' = verifyPasswordResetTokenDelete(token)
              /\ IF userId = NoId
                 THEN req' = [req EXCEPT ![r] =
                        RespondedReset(q, 400, Error("Invalid or expired reset token"))]
                 ELSE req' = [req EXCEPT ![r] =
                        [q EXCEPT !.pc = "reset_findByPk", !.userId = userId]]
  /\ UNCHANGED <<now, refreshSecret, users, nextToken, issued, clientVars, serviceVars>>

\* resetUserPasswordQuery: const user = await User.findByPk(userId); the
\* controller does not look at the boolean it returns
resetPasswordFindByPk(r) ==
  /\ req[r].pc = "reset_findByPk"
  /\ LET q == req[r]
         user == findByPk(q.userId)
     IN  req' = [req EXCEPT ![r] =
           IF user = NoRow
           THEN RespondedReset(q, 200, Message("Password has been reset successfully"))
           ELSE [q EXCEPT !.pc = "reset_update", !.user = user]]
  /\ UNCHANGED <<now, refreshSecret, users, resetTokens, nextToken, issued, clientVars, serviceVars>>

\* await bcrypt.hash(newPassword, saltRounds); await user.update({ password })
resetPasswordUpdate(r) ==
  /\ req[r].pc = "reset_update"
  /\ \E salt \in Salts :
       users' = {IF u.id = req[r].user.id
                 THEN [u EXCEPT !.password = bcryptHash(req[r].password, salt)]
                 ELSE u : u \in users}
  /\ req' = [req EXCEPT ![r].pc = "reset_remove", ![r].changed = TRUE]
  /\ UNCHANGED <<now, refreshSecret, resetTokens, nextToken, issued, clientVars, serviceVars>>

\* the loop deleting the user's reset tokens, return true, and the response
resetPasswordRemove(r) ==
  /\ req[r].pc = "reset_remove"
  /\ resetTokens' = removeResetTokensOf(req[r].userId)
  /\ req' = [req EXCEPT ![r] =
       RespondedReset(req[r], 200, Message("Password has been reset successfully"))]
  /\ UNCHANGED <<now, refreshSecret, users, nextToken, issued, clientVars, serviceVars>>

----------------------------------------------------------------------------
(* GET /auth/verify-token *)

\* the header checks and verifyAccessToken, which awaits nothing
verifyTokenStart(r, authHeader) ==
  /\ Free(r)
  /\ LET token == extractTokenFromHeader(authHeader)
         decoded == verifyAccessToken(token)
         q == [Arrive("verifyToken") EXCEPT
                 !.authorization = authHeader, !.gone = GoneId(token.userId)]
     IN  req' = [req EXCEPT ![r] =
           IF ~authHeader.present
           THEN Responded(q, 401, ErrorCode("No token provided", "TOKEN_MISSING"))
           ELSE IF token = NoJwt
           THEN Responded(q, 401,
                  ErrorCode("Invalid authorization header format", "INVALID_AUTH_HEADER"))
           ELSE IF decoded = NoJwt
           THEN Responded(q, 401, ErrorCode("Invalid or expired token", "TOKEN_INVALID"))
           ELSE [q EXCEPT !.pc = "verify_getUser", !.decoded = decoded]]
  /\ UNCHANGED <<now, refreshSecret, users, resetTokens, nextToken, issued, clientVars, serviceVars>>

\* const user = await getUserByEmailQuery('', false, decoded.userId), and the rest
verifyTokenGetUser(r) ==
  /\ req[r].pc = "verify_getUser"
  /\ LET q == req[r]
         user == getUserByEmailQuery(NoEmail, FALSE, q.decoded.userId)
     IN  req' = [req EXCEPT ![r] =
           IF user = NoRow
           THEN Responded(q, 401, ErrorCode("User not found", "USER_NOT_FOUND"))
           ELSE Responded(q, 200,
                  [data |-> [user |-> userWithoutPassword(user),
                             valid |-> TRUE,
                             expiresAt |-> q.decoded.exp],
                   message |-> "Token is valid"])]
  /\ UNCHANGED <<now, refreshSecret, users, resetTokens, nextToken, issued, clientVars, serviceVars>>

----------------------------------------------------------------------------
(* POST /auth/refresh-token *)

\* the body check and verifyRefreshToken, which awaits nothing
refreshTokenStart(r, refreshToken) ==
  /\ Free(r)
  /\ LET decoded == verifyRefreshToken(refreshToken)
         q == [Arrive("refreshToken") EXCEPT
                 !.refreshToken = refreshToken, !.gone = GoneId(refreshToken.userId)]
     IN  req' = [req EXCEPT ![r] =
           IF refreshToken = NoJwt
           THEN Responded(q, 400,
                  ErrorCode("Refresh token is required", "REFRESH_TOKEN_MISSING"))
           ELSE IF decoded = NoJwt
           THEN Responded(q, 401,
                  ErrorCode("Invalid or expired refresh token", "REFRESH_TOKEN_INVALID"))
           ELSE [q EXCEPT !.pc = "refresh_getUser", !.decoded = decoded]]
  /\ UNCHANGED <<now, refreshSecret, users, resetTokens, nextToken, issued, clientVars, serviceVars>>

\* const user = await getUserByEmailQuery('', false, decoded.userId), and the rest
refreshTokenGetUser(r) ==
  /\ req[r].pc = "refresh_getUser"
  /\ LET q == req[r]
         user == getUserByEmailQuery(NoEmail, FALSE, q.decoded.userId)
         tokens == generateTokens(user.id, user.email)
     IN  IF user = NoRow
         THEN /\ req' = [req EXCEPT ![r] =
                   Responded(q, 401, ErrorCode("User not found", "USER_NOT_FOUND"))]
              /\ UNCHANGED issued
         ELSE /\ Cardinality(issued \cup {tokens.accessToken, tokens.refreshToken}) <= MaxIssued
              /\ issued' = issued \cup {tokens.accessToken, tokens.refreshToken}
              /\ req' = [req EXCEPT ![r] =
                   Responded(q, 200,
                     [data |-> [user |-> userWithoutPassword(user),
                                accessToken |-> tokens.accessToken,
                                refreshToken |-> tokens.refreshToken,
                                expiresIn |-> tokens.expiresIn],
                      message |-> "Token refreshed successfully"])]
  /\ UNCHANGED <<now, refreshSecret, users, resetTokens, nextToken, clientVars, serviceVars>>

----------------------------------------------------------------------------
(* DELETE /users/:id *)

\* const userId = parseInt(id, 10); NoId is a parameter that is not a number
deleteUserStart(r, id) ==
  /\ Free(r)
  /\ LET q == [Arrive("deleteUser") EXCEPT !.id = id]
     IN  req' = [req EXCEPT ![r] =
           IF id = NoId
           THEN Responded(q, 400, Error("Invalid user ID"))
           ELSE [q EXCEPT !.pc = "delete_findByPk"]]
  /\ UNCHANGED <<now, refreshSecret, users, resetTokens, nextToken, issued, clientVars, serviceVars>>

\* deleteUserQuery: const user = await User.findByPk(id)
deleteUserFindByPk(r) ==
  /\ req[r].pc = "delete_findByPk"
  /\ LET q == req[r]
         user == findByPk(q.id)
     IN  req' = [req EXCEPT ![r] =
           IF user = NoRow
           THEN Responded(q, 404, Error("User not found"))
           ELSE [q EXCEPT !.pc = "delete_destroy", !.user = user]]
  /\ UNCHANGED <<now, refreshSecret, users, resetTokens, nextToken, issued, clientVars, serviceVars>>

\* deleteUserQuery: await user.destroy(), a soft delete; and the response
deleteUserDestroy(r) ==
  /\ req[r].pc = "delete_destroy"
  /\ users' = {IF u.id = req[r].user.id THEN [u EXCEPT !.deletedAt = TRUE] ELSE u : u \in users}
  /\ req' = [req EXCEPT ![r] = Responded(req[r], 200, Message("User deleted successfully"))]
  /\ UNCHANGED <<now, refreshSecret, resetTokens, nextToken, issued, clientVars, serviceVars>>

----------------------------------------------------------------------------
(* The clock *)

Tick ==
  /\ now < MaxTime
  /\ now' = now + 1
  /\ UNCHANGED <<refreshSecret, users, resetTokens, nextToken, issued, req, clientVars, serviceVars>>

----------------------------------------------------------------------------
(* The server starts on a users table that holds one account, with an     *)
(* empty resetTokens map; the two secrets come from the environment and    *)
(* may have been set to the same value.                                    *)

InitialPassword == "secret1"

\* retry.attempts and retry.delay of the exported httpService (3 and 1000 ms
\* in the source, scaled)
RetryAttempts == 2
RetryDelay == 1

\* new TMAxios(config): config.retry, with or without the retryCondition of
\* the constructor's default
Retry(retryCondition) ==
  [attempts |-> RetryAttempts, delay |-> RetryDelay, retryCondition |-> retryCondition]

\* no entry of requestCache
NoCached == [data |-> NoBody, timestamp |-> 0, stored |-> FALSE]

\* the exported httpService and networkService as the modules create them
InitService ==
  /\ config = [retry |-> Retry(FALSE)]
  /\ retryCount = {}
  /\ requests = <<>>
  /\ requestCache = NoCached
  /\ gets = <<>>

\* null, for the user of the auth slice
NoUser == [id |-> NoId, email |-> NoEmail]

\* initialState of the auth slice, with the accessToken and refreshToken that
\* the interceptor reads from it; undefined and null are NoJwt.  The flags
\* isLoading and error drive the forms only and are left out.
initialState ==
  [user |-> NoUser, isAuthenticated |-> FALSE, token |-> NoJwt,
   accessToken |-> NoJwt, refreshToken |-> NoJwt]

Init ==
  /\ now = 0
  /\ refreshSecret \in {JWT_REFRESH_SECRET_DEFAULT, JWT_SECRET}
  /\ users = {Row(1, EmailA, bcryptHash(InitialPassword, "saltA"), FALSE)}
  /\ resetTokens = {}
  /\ nextToken = 1
  /\ issued = {}
  /\ req = [r \in Reqs |-> IdleReq]
  /\ auth = initialState
  /\ authToken = NoJwt
  /\ localStorage = [authToken |-> NoJwt, refreshToken |-> NoJwt]
  /\ sessionStorage = [authToken |-> NoJwt]
  /\ calls = <<>>
  /\ InitService

\* what a client can send
SigninEmails == {EmailA, EmailX, EmailBad, NoEmail}
SigninPasswords == {"secret1", "hunter22", ""}
ForgotEmails == {EmailA, EmailX, EmailBad, NoEmail}
ResetTokenInputs == {MissingToken, UnknownToken} \cup 1..(nextToken - 1)
NewPasswords == {"hunter22", "short", ""}
RefreshInputs == issued \cup {NoJwt}
HeaderInputs ==
  {NoHeader, Header("Basic", NoJwt), Header("Bearer", NoJwt)}
    \cup {Header("Bearer", t) : t \in issued}
DeleteIds == UserIds \cup {NoId}

signin ==
  \E r \in Reqs :
    \/ \E email \in SigninEmails, password \in SigninPasswords : signinStart(r, email, password)
    \/ signinGetUser(r)
    \/ signinCompare(r)

forgotPassword ==
  \E r \in Reqs :
    \/ \E email \in ForgotEmails : forgotPasswordStart(r, email)
    \/ forgotPasswordGetUser(r)
    \/ forgotPasswordCreate(r)

resetPassword ==
  \E r \in Reqs :
    \/ \E token \in ResetTokenInputs, newPassword \in NewPasswords :
         resetPasswordStart(r, token, newPassword)
    \/ resetPasswordFindByPk(r)
    \/ resetPasswordUpdate(r)
    \/ resetPasswordRemove(r)

verifyToken ==
  \E r \in Reqs :
    \/ \E authHeader \in HeaderInputs : verifyTokenStart(r, authHeader)
    \/ verifyTokenGetUser(r)

refreshToken ==
  \E r \in Reqs :
    \/ \E token \in RefreshInputs : refreshTokenStart(r, token)
    \/ refreshTokenGetUser(r)

deleteUser ==
  \E r \in Reqs :
    \/ \E id \in DeleteIds : deleteUserStart(r, id)
    \/ deleteUserFindByPk(r)
    \/ deleteUserDestroy(r)

Next ==
  \/ signin
  \/ forgotPassword
  \/ resetPassword
  \/ verifyToken
  \/ refreshToken
  \/ deleteUser
  \/ Tick

Spec == Init /\ [][Next]_vars

\* the password-reset flows alone, with account deletion and the clock
NextReset ==
  \/ forgotPassword
  \/ resetPassword
  \/ deleteUser
  \/ Tick

\* the refresh secret plays no part in these flows
InitReset == Init /\ refreshSecret = JWT_REFRESH_SECRET_DEFAULT

SpecReset == InitReset /\ [][NextReset]_vars

\* the signed-token flows alone, with account deletion and the clock
NextTokenFlows ==
  \/ signin
  \/ verifyToken
  \/ refreshToken
  \/ deleteUser
  \/ Tick

SpecToken == Init /\ [][NextTokenFlows]_vars

\* password recovery without account deletion
NextExpiry ==
  \/ forgotPassword
  \/ resetPassword
  \/ Tick

SpecExpiry == InitReset /\ [][NextExpiry]_vars

\* forgot-password alone, with account deletion and the clock
NextForgot ==
  \/ forgotPassword
  \/ deleteUser
  \/ Tick

SpecForgot == InitReset /\ [][NextForgot]_vars

----------------------------------------------------------------------------
(* The users table as the /users endpoints and sign-up see it *)

\* rows the users table can hold
MaxUsers == 3

\* mutant of emailIsUnique: the users table without the unique index on email
emailIsUnique_noIndex(email, id) == TRUE

\* @Unique on the email column, created by sequelize.sync(): an insert or an
\* update is refused when another row, soft-deleted or not, has the e-mail
emailIsUnique(email, id) == ~\E u \in users : u.email = email /\ u.id # id

\* @AutoIncrement: rows are never removed, so the next id is their number plus one
nextUserId == Cardinality(users) + 1

\* user.util getUserByEmailQuery(email): findOne without the password
getUserByEmail(email) == excludePassword(findOne(email))

\* mutant of getAllUsersQuery: every column of every row, as SELECT * FROM users
getAllUsersQuery_selectAll == users

\* User.findAll({ attributes: { exclude: ['password'] } })
getAllUsersQuery == {excludePassword(u) : u \in {v \in users : ~v.deletedAt}}

\* User.findByPk(id, { attributes: { exclude: ['password'] } })
getUserByIdQuery(id) == excludePassword(findByPk(id))

----------------------------------------------------------------------------
(* POST /users and POST /auth/signup: signup calls createUser(req, res)    *)

createUserStart(r, firstname, lastname, email, password) ==
  /\ Free(r)
  /\ LET q == [Arrive("createUser") EXCEPT
                 !.email = email, !.password = password,
                 !.taken = (findOne(email) # NoRow), !.gone = GoneEmail(email)]
     IN  req' = [req EXCEPT ![r] =
           IF firstname = "" \/ lastname = "" \/ email = NoEmail \/ password = ""
           THEN RespondedReset(q, 400,
                  Error("Missing required fields: firstname, lastname, email, password"))
           ELSE IF ~emailRegex(email)
           THEN RespondedReset(q, 400, Error("Invalid email format"))
           ELSE [q EXCEPT !.pc = "create_getUser"]]
  /\ UNCHANGED <<now, refreshSecret, users, resetTokens, nextToken, issued, clientVars, serviceVars>>

\* const existingUser = await getUserByEmailQuery(email)
createUserGetUser(r) ==
  /\ req[r].pc = "create_getUser"
  /\ LET q == req[r]
         existingUser == getUserByEmail(q.email)
     IN  req' = [req EXCEPT ![r] =
           IF existingUser # NoRow
           THEN RespondedReset([q EXCEPT !.found = TRUE], 409,
                  Error("User with this email already exists"))
           ELSE [q EXCEPT !.pc = "create_create"]]
  /\ UNCHANGED <<now, refreshSecret, users, resetTokens, nextToken, issued, clientVars, serviceVars>>

\* createUserQuery: await bcrypt.hash, await User.create; a refused insert
\* throws and the catch block answers 500
createUserCreate(r) ==
  /\ req[r].pc = "create_create"
  /\ LET q == req[r]
     IN  IF emailIsUnique(q.email, NoId)
         THEN /\ Cardinality(users) < MaxUsers
              /\ \E salt \in Salts :
                   LET newUser == Row(nextUserId, q.email, bcryptHash(q.password, salt), FALSE)
                   IN  /\ users' = users \cup {newUser}
                       /\ req' = [req EXCEPT ![r] =
                            RespondedReset([q EXCEPT !.created = TRUE], 201,
                              [data |-> userWithoutPassword(newUser),
                               message |-> "User created successfully"])]
         ELSE /\ req' = [req EXCEPT ![r] =
                   RespondedReset(q, 500, Error("Failed to create user"))]
              /\ UNCHANGED users
  /\ UNCHANGED <<now, refreshSecret, resetTokens, nextToken, issued, clientVars, serviceVars>>

----------------------------------------------------------------------------
(* GET /users *)

getAllUsersStart(r) ==
  /\ Free(r)
  /\ req' = [req EXCEPT ![r] = [Arrive("getAllUsers") EXCEPT !.pc = "getAll_findAll"]]
  /\ UNCHANGED <<now, refreshSecret, users, resetTokens, nextToken, issued, clientVars, serviceVars>>

\* const users = await getAllUsersQuery(), and the response
getAllUsersFindAll(r) ==
  /\ req[r].pc = "getAll_findAll"
  /\ req' = [req EXCEPT ![r] =
       Responded(req[r], 200,
         [data |-> getAllUsersQuery, message |-> "Users retrieved successfully"])]
  /\ UNCHANGED <<now, refreshSecret, users, resetTokens, nextToken, issued, clientVars, serviceVars>>

----------------------------------------------------------------------------
(* GET /users/:id *)

getUserByIdStart(r, id) ==
  /\ Free(r)
  /\ LET q == [Arrive("getUserById") EXCEPT !.id = id]
     IN  req' = [req EXCEPT ![r] =
           IF id = NoId
           THEN Responded(q, 400, Error("Invalid user ID"))
           ELSE [q EXCEPT !.pc = "getUser_findByPk"]]
  /\ UNCHANGED <<now, refreshSecret, users, resetTokens, nextToken, issued, clientVars, serviceVars>>

\* const user = await getUserByIdQuery(userId), and the response
getUserByIdFindByPk(r) ==
  /\ req[r].pc = "getUser_findByPk"
  /\ LET q == req[r]
         user == getUserByIdQuery(q.id)
     IN  req' = [req EXCEPT ![r] =
           IF user = NoRow
           THEN Responded(q, 404, Error("User not found"))
           ELSE Responded(q, 200,
                  [data |-> user, message |-> "User retrieved successfully"])]
  /\ UNCHANGED <<now, refreshSecret, users, resetTokens, nextToken, issued, clientVars, serviceVars>>

----------------------------------------------------------------------------
(* PATCH /users/:id *)

updateUserStart(r, id, firstname, lastname, email) ==
  /\ Free(r)
  /\ LET q == [Arrive("updateUser") EXCEPT !.id = id, !.email = email]
     IN  req' = [req EXCEPT ![r] =
           IF id = NoId
           THEN Responded(q, 400, Error("Invalid user ID"))
           ELSE IF firstname = "" /\ lastname = "" /\ email = NoEmail
           THEN Responded(q, 400,
                  Error("At least one field (firstname, lastname, email) must be provided"))
           ELSE IF email = NoEmail
           THEN [q EXCEPT !.pc = "update_findByPk"]
           ELSE IF ~emailRegex(email)
           THEN Responded(q, 400, Error("Invalid email format"))
           ELSE [q EXCEPT !.pc = "update_getUser"]]
  /\ UNCHANGED <<now, refreshSecret, users, resetTokens, nextToken, issued, clientVars, serviceVars>>

\* const existingUser = await getUserByEmailQuery(email)
updateUserGetUser(r) ==
  /\ req[r].pc = "update_getUser"
  /\ LET q == req[r]
         existingUser == getUserByEmail(q.email)
     IN  req' = [req EXCEPT ![r] =
           IF existingUser # NoRow /\ existingUser.id # q.id
           THEN Responded(q, 409, Error("Email already in use by another user"))
           ELSE [q EXCEPT !.pc = "update_findByPk"]]
  /\ UNCHANGED <<now, refreshSecret, users, resetTokens, nextToken, issued, clientVars, serviceVars>>

\* updateUserQuery: const user = await User.findByPk(id)
updateUserFindByPk(r) ==
  /\ req[r].pc = "update_findByPk"
  /\ LET q == req[r]
         user == findByPk(q.id)
     IN  req' = [req EXCEPT ![r] =
           IF user = NoRow
           THEN Responded(q, 404, Error("User not found"))
           ELSE [q EXCEPT !.pc = "update_update"]]
  /\ UNCHANGED <<now, refreshSecret, users, resetTokens, nextToken, issued, clientVars, serviceVars>>

\* updateUserQuery: await user.update(userData); a refused update throws and
\* the catch block answers 500
updateUserUpdate(r) ==
  /\ req[r].pc = "update_update"
  /\ LET q == req[r]
     IN  IF q.email # NoEmail /\ ~emailIsUnique(q.email, q.id)
         THEN /\ req' = [req EXCEPT ![r] =
                   Responded(q, 500, Error("Failed to update user"))]
              /\ UNCHANGED users
         ELSE /\ users' = {IF u.id = q.id /\ q.email # NoEmail
                           THEN [u EXCEPT !.email = q.email]
                           ELSE u : u \in users}
              /\ req' = [req EXCEPT ![r].pc = "update_reload"]
  /\ UNCHANGED <<now, refreshSecret, resetTokens, nextToken, issued, clientVars, serviceVars>>

\* updateUserQuery: return await User.findByPk(id, without the password), and the response
updateUserReload(r) ==
  /\ req[r].pc = "update_reload"
  /\ LET q == req[r]
         updatedUser == getUserByIdQuery(q.id)
     IN  req' = [req EXCEPT ![r] =
           IF updatedUser = NoRow
           THEN Responded(q, 404, Error("User not found"))
           ELSE Responded(q, 200,
                  [data |-> updatedUser, message |-> "User updated successfully"])]
  /\ UNCHANGED <<now, refreshSecret, users, resetTokens, nextToken, issued, clientVars, serviceVars>>

----------------------------------------------------------------------------
(* The account endpoints together *)

\* what a client can send
\* firstname and lastname: both given, or both missing
Names == {<<"Ann", "Lee">>, <<"", "">>}
SignupEmails == {EmailA, EmailX, EmailBad, NoEmail}
SignupPasswords == {"hunter22", ""}
\* the id of a row, an id no row has, or a parameter that is not a number
UserIdInputs == {u.id : u \in users} \cup {nextUserId, NoId}
UpdateEmails == {EmailA, EmailX, EmailBad, NoEmail}

createUser ==
  \E r \in Reqs :
    \/ \E name \in Names, email \in SignupEmails, password \in SignupPasswords :
         createUserStart(r, name[1], name[2], email, password)
    \/ createUserGetUser(r)
    \/ createUserCreate(r)

getAllUsers ==
  \E r \in Reqs :
    \/ getAllUsersStart(r)
    \/ getAllUsersFindAll(r)

getUserById ==
  \E r \in Reqs :
    \/ \E id \in UserIdInputs : getUserByIdStart(r, id)
    \/ getUserByIdFindByPk(r)

updateUser ==
  \E r \in Reqs :
    \/ \E id \in UserIdInputs, name \in Names, email \in UpdateEmails :
         updateUserStart(r, id, name[1], name[2], email)
    \/ updateUserGetUser(r)
    \/ updateUserFindByPk(r)
    \/ updateUserUpdate(r)
    \/ updateUserReload(r)

\* sign-up with account deletion: the rows of the users table
NextSignup ==
  \/ createUser
  \/ deleteUser
  \/ updateUser

SpecSignup == InitReset /\ [][NextSignup]_vars

\* every endpoint that answers with a user, with requests that pass the
\* checks of the request body (the other responses carry no user)
NextUsers ==
  \E r \in Reqs :
    \/ \E password \in Passwords : signinStart(r, EmailA, password)
    \/ signinGetUser(r)
    \/ signinCompare(r)
    \/ \E email \in {EmailA, EmailX} : createUserStart(r, "Ann", "Lee", email, "hunter22")
    \/ createUserGetUser(r)
    \/ createUserCreate(r)
    \/ \E token \in issued : verifyTokenStart(r, Header("Bearer", token))
    \/ verifyTokenGetUser(r)
    \/ \E token \in issued : refreshTokenStart(r, token)
    \/ refreshTokenGetUser(r)
    \/ getAllUsersStart(r)
    \/ getAllUsersFindAll(r)
    \/ \E id \in UserIdInputs : getUserByIdStart(r, id)
    \/ getUserByIdFindByPk(r)
    \/ \E id \in UserIdInputs, email \in {EmailX, NoEmail} :
         updateUserStart(r, id, "Ann", "", email)
    \/ updateUserGetUser(r)
    \/ updateUserFindByPk(r)
    \/ updateUserUpdate(r)
    \/ updateUserReload(r)

SpecUsers == InitReset /\ [][NextUsers]_vars

----------------------------------------------------------------------------
(* The web client: the auth slice, the HTTP client and its interceptors.   *)
(* The client runs on one thread: a response is handled, with every        *)
(* promise continuation that it makes runnable, before the next response   *)
(* or click is looked at.  Each action below is one such run.              *)

\* HTTP calls the client can make
MaxCalls == 4

ApiUrl == "/businesses/1"
RefreshUrl == "/auth/refresh-token"
SigninUrl == "/auth/signin"

\* the URLs that the interceptor's handlers leave alone (url.includes)
IsAuthEndpoint(url) ==
  url \in {"/auth/signin", "/auth/signup", "/auth/forgot-password", "/auth/reset-password"}

NoCredentials == [email |-> NoEmail, password |-> ""]

NoTokens == [accessToken |-> NoJwt, refreshToken |-> NoJwt]

\* an HTTP call: its config (url, headers.Authorization, the data posted,
\* _retry), the call whose interceptor handler awaits it (0: the
\* application), where it stands, and the response it got last
Call(url, authorization, token, credentials, parent) ==
  [url |-> url, authorization |-> authorization, refreshToken |-> token,
   credentials |-> credentials, retry |-> FALSE, parent |-> parent,
   pc |-> "sent", status |-> 0, result |-> "", data |-> NoTokens,
   \* history: the call whose handler was awaiting a refresh when this one's
   \* began, and whether this call's handler dispatched signout
   peer |-> 0, ended |-> FALSE]

\* a response: status 0 is an error without a response (network, timeout)
Resp(status, body) == [status |-> status, body |-> body]
NetworkError == Resp(0, NoBody)

\* AuthInterceptor.requestInterceptor on a config whose Authorization header
\* is h, with the auth state it reads from the store
requestInterceptor(state, url, h) ==
  IF IsAuthEndpoint(url) THEN h
  ELSE IF state.accessToken # NoJwt THEN Header("Bearer", state.accessToken)
  ELSE h

\* the request interceptor that the TMAxios constructor registers, with the
\* config.authToken it reads
setupInterceptors(token, h) ==
  IF token # NoJwt THEN Header("Bearer", token) ELSE h

\* the header a request leaves with: axios runs the request interceptor
\* that was registered first (the constructor's) last
requestHeaders(state, token, url, h) ==
  setupInterceptors(token, requestInterceptor(state, url, h))

\* authenticateJWT in front of a protected route, and the route's answer
authenticateJWT(authHeader) ==
  LET token == extractTokenFromHeader(authHeader)
  IN  IF ~authHeader.present
      THEN Resp(401, ErrorCode("Access token required", "TOKEN_MISSING"))
      ELSE IF token = NoJwt
      THEN Resp(401, ErrorCode("Invalid authorization header format", "INVALID_AUTH_HEADER"))
      ELSE IF verifyAccessToken(token) = NoJwt
      THEN Resp(401, ErrorCode("Invalid or expired token", "TOKEN_INVALID"))
      ELSE Resp(200, Message("Business retrieved successfully"))

\* POST /auth/refresh-token, when no other handler runs during its lookup
refreshTokenResponse(token) ==
  LET decoded == verifyRefreshToken(token)
      user == getUserByEmailQuery(NoEmail, FALSE, decoded.userId)
      tokens == generateTokens(user.id, user.email)
  IN  IF token = NoJwt
      THEN Resp(400, ErrorCode("Refresh token is required", "REFRESH_TOKEN_MISSING"))
      ELSE IF decoded = NoJwt
      THEN Resp(401, ErrorCode("Invalid or expired refresh token", "REFRESH_TOKEN_INVALID"))
      ELSE IF user = NoRow
      THEN Resp(401, ErrorCode("User not found", "USER_NOT_FOUND"))
      ELSE Resp(200, [data |-> [user |-> userWithoutPassword(user),
                                accessToken |-> tokens.accessToken,
                                refreshToken |-> tokens.refreshToken,
                                expiresIn |-> tokens.expiresIn],
                      message |-> "Token refreshed successfully"])

\* POST /auth/signin, when no other handler runs during its lookup
signinResponse(credentials) ==
  LET user == getUserByEmailQuery(credentials.email, TRUE, NoId)
      tokens == generateTokens(user.id, user.email)
  IN  IF credentials.email = NoEmail \/ credentials.password = ""
      THEN Resp(400, Error("Email and password are required"))
      ELSE IF ~emailRegex(credentials.email)
      THEN Resp(400, Error("Invalid email format"))
      ELSE IF user = NoRow \/ ~bcryptCompare(credentials.password, user.password)
      THEN Resp(401, Error("Invalid email or password"))
      ELSE Resp(200, [data |-> [user |-> userWithoutPassword(user),
                                accessToken |-> tokens.accessToken,
                                refreshToken |-> tokens.refreshToken,
                                expiresIn |-> tokens.expiresIn],
                      message |-> "Signin successful"])

\* the tokens a response hands to the client
TokensOf(resp) ==
  IF resp.status = 200 /\ "data" \in DOMAIN resp.body
  THEN {resp.body.data.accessToken, resp.body.data.refreshToken}
  ELSE {}

\* the session of a signed-in client: the store holds the pair that the
\* server issued for the user
session(user, tokens) ==
  [user |-> user, isAuthenticated |-> TRUE, token |-> NoJwt,
   accessToken |-> tokens.accessToken, refreshToken |-> tokens.refreshToken]

\* the reducer behind store.dispatch({ type: 'auth/updateTokens', payload })
updateTokens(state, payload) ==
  [state EXCEPT !.accessToken = payload.accessToken,
                !.refreshToken = payload.refreshToken]

\* what signing out does to the pair that the store holds
clearTokens(state) ==
  [state EXCEPT !.accessToken = NoJwt, !.refreshToken = NoJwt]

\* signin.fulfilled and signin.rejected
signinFulfilled(state, payload) ==
  [state EXCEPT !.user = payload.user, !.token = payload.token,
                !.isAuthenticated = TRUE]
signinRejected(state) ==
  [state EXCEPT !.user = NoUser, !.isAuthenticated = FALSE, !.token = NoJwt]

\* the signout reducer: the state, networkService.clearAuthToken() and the
\* two removeItem('authToken')
signout ==
  /\ auth' = clearTokens([auth EXCEPT !.user = NoUser, !.isAuthenticated = FALSE,
                                      !.token = NoJwt])
  /\ authToken' = NoJwt
  /\ localStorage' = [localStorage EXCEPT !.authToken = NoJwt]
  /\ sessionStorage' = [sessionStorage EXCEPT !.authToken = NoJwt]

\* the calls whose handlers wait, directly or not, for call c
RECURSIVE Ancestors(_)
Ancestors(c) ==
  IF calls[c].parent = 0 THEN {}
  ELSE {calls[c].parent} \cup Ancestors(calls[c].parent)

InFlight(c) == calls[c].pc \in {"sent", "resent"}

\* a handler that is awaiting its refresh exchange when the handler of c
\* starts one
Peer(c) ==
  LET waiting == {d \in DOMAIN calls : calls[d].pc = "refreshing"} \ Ancestors(c)
  IN  IF waiting = {} THEN 0 ELSE CHOOSE d \in waiting : \A e \in waiting : d <= e

\* call c fails with this status: its promise is rejected, and with it, from
\* the catch of each handler that awaits it, the promises of its ancestors
Reject(cs, c, status) ==
  [i \in DOMAIN cs |->
     IF i = c
     THEN [cs[i] EXCEPT !.pc = "done", !.result = "rejected", !.status = status]
     ELSE IF i \in Ancestors(c)
     THEN [cs[i] EXCEPT !.pc = "done", !.result = "rejected", !.ended = TRUE]
     ELSE cs[i]]

\* what the server answers to call c
Answer(c) ==
  IF calls[c].url = SigninUrl THEN signinResponse(calls[c].credentials)
  ELSE IF calls[c].url = RefreshUrl THEN refreshTokenResponse(calls[c].refreshToken)
  ELSE authenticateJWT(calls[c].authorization)

\* mutant of Payload: the two tokens taken for one another
Payload_swapped(resp) ==
  [accessToken |-> resp.body.data.refreshToken,
   refreshToken |-> resp.body.data.accessToken]

Payload(resp) ==
  [accessToken |-> resp.body.data.accessToken,
   refreshToken |-> resp.body.data.refreshToken]

\* the signin thunk: the request leaves
signinSubmit(credentials) ==
  /\ ~auth.isAuthenticated
  /\ Len(calls) < MaxCalls
  /\ \A c \in DOMAIN calls : calls[c].url # SigninUrl
  /\ calls' = Append(calls, Call(SigninUrl,
                                 requestHeaders(auth, authToken, SigninUrl, NoHeader),
                                 NoJwt, credentials, 0))
  /\ UNCHANGED <<now, refreshSecret, users, resetTokens, nextToken, issued, req, serviceVars>>
  /\ UNCHANGED <<auth, authToken, localStorage, sessionStorage>>

\* the signin thunk: the answer is 2xx.  const { user, token } = data.data
\* finds no token in what the server sends, so that if (token) is skipped
signinSucceeds(c) ==
  LET resp == Answer(c)
      payload == [user |-> resp.body.data.user, token |-> NoJwt]
  IN  /\ calls[c].url = SigninUrl
      /\ InFlight(c)
      /\ resp.status = 200
      /\ calls' = [calls EXCEPT ![c].pc = "done", ![c].result = "resolved",
                                ![c].status = 200, ![c].data = Payload(resp)]
      /\ auth' = signinFulfilled(auth, payload)
      /\ issued' = issued \cup TokensOf(resp)
      /\ UNCHANGED <<now, refreshSecret, users, resetTokens, nextToken, req, serviceVars>>
      /\ UNCHANGED <<authToken, localStorage, sessionStorage>>

\* the signin thunk: the request fails.  responseErrorInterceptor passes the
\* error of an authentication endpoint on, the thunk rejects with its text
signinFails(c, resp) ==
  /\ calls[c].url = SigninUrl
  /\ InFlight(c)
  /\ resp.status # 200
  /\ calls' = Reject(calls, c, resp.status)
  /\ auth' = signinRejected(auth)
  /\ UNCHANGED <<now, refreshSecret, users, resetTokens, nextToken, issued, req, serviceVars>>
  /\ UNCHANGED <<authToken, localStorage, sessionStorage>>

\* the application asks for a protected resource
apiRequest ==
  /\ Len(calls) < MaxCalls
  /\ calls' = Append(calls, Call(ApiUrl,
                                 requestHeaders(auth, authToken, ApiUrl, NoHeader),
                                 NoJwt, NoCredentials, 0))
  /\ UNCHANGED <<now, refreshSecret, users, resetTokens, nextToken, issued, req, serviceVars>>
  /\ UNCHANGED <<auth, authToken, localStorage, sessionStorage>>

\* call c is answered 2xx and no handler awaits it
resolved(c) ==
  LET resp == Answer(c)
  IN  /\ calls[c].url = ApiUrl
      /\ InFlight(c)
      /\ resp.status = 200
      /\ calls' = [calls EXCEPT ![c].pc = "done", ![c].result = "resolved",
                                ![c].status = 200]
      /\ UNCHANGED <<now, refreshSecret, users, resetTokens, nextToken, issued, req, serviceVars>>
      /\ UNCHANGED <<auth, authToken, localStorage, sessionStorage>>

\* responseErrorInterceptor: 401 on a request without _retry, a refresh
\* token in the store: the exchange is posted and the handler awaits it
refreshBegins(c) ==
  LET resp == Answer(c)
  IN  /\ ~IsAuthEndpoint(calls[c].url)
      /\ InFlight(c)
      /\ resp.status = 401
      /\ ~calls[c].retry
      /\ auth.refreshToken # NoJwt
      /\ Len(calls) < MaxCalls
      /\ calls' = Append([calls EXCEPT ![c].retry = TRUE, ![c].status = 401,
                                       ![c].pc = "refreshing", ![c].peer = Peer(c)],
                         Call(RefreshUrl,
                              requestHeaders(auth, authToken, RefreshUrl, NoHeader),
                              auth.refreshToken, NoCredentials, c))
      /\ UNCHANGED <<now, refreshSecret, users, resetTokens, nextToken, issued, req, serviceVars>>
      /\ UNCHANGED <<auth, authToken, localStorage, sessionStorage>>

\* responseErrorInterceptor: 401 on a request without _retry, no refresh
\* token in the store: signout, and the error is passed on
noRefreshToken(c) ==
  LET resp == Answer(c)
  IN  /\ ~IsAuthEndpoint(calls[c].url)
      /\ InFlight(c)
      /\ resp.status = 401
      /\ ~calls[c].retry
      /\ auth.refreshToken = NoJwt
      /\ calls' = Reject([calls EXCEPT ![c].retry = TRUE, ![c].ended = TRUE], c, 401)
      /\ signout
      /\ UNCHANGED <<now, refreshSecret, users, resetTokens, nextToken, issued, req, serviceVars>>

\* responseErrorInterceptor: any other error is passed on; a handler that
\* awaits this call catches it, dispatches signout and passes it on
failed(c, resp) ==
  /\ ~IsAuthEndpoint(calls[c].url)
  /\ InFlight(c)
  /\ resp.status # 200
  /\ resp.status # 401 \/ calls[c].retry
  /\ calls' = Reject(calls, c, resp.status)
  /\ IF calls[c].parent # 0
     THEN signout
     ELSE UNCHANGED <<auth, authToken, localStorage, sessionStorage>>
  /\ UNCHANGED <<now, refreshSecret, users, resetTokens, nextToken, issued, req, serviceVars>>

\* the refresh exchange c that the handler of call p awaits is answered 2xx:
\* the handler dispatches auth/updateTokens, writes both tokens to
\* localStorage, sets the header of the original request and issues it again
refreshSucceeds(c) ==
  LET resp == Answer(c)
      p == calls[c].parent
      payload == Payload(resp)
      state == updateTokens(auth, payload)
  IN  /\ calls[c].url = RefreshUrl
      /\ InFlight(c)
      /\ resp.status = 200
      /\ auth' = state
      /\ localStorage' = [localStorage EXCEPT !.authToken = payload.accessToken,
                                             !.refreshToken = payload.refreshToken]
      /\ calls' = [calls EXCEPT
                     ![c].pc = "done", ![c].result = "resolved",
                     ![c].status = 200, ![c].data = payload,
                     ![p].pc = "resent",
                     ![p].authorization =
                        requestHeaders(state, authToken, calls[p].url,
                                       Header("Bearer", payload.accessToken))]
      /\ issued' = issued \cup TokensOf(resp)
      /\ UNCHANGED <<now, refreshSecret, users, resetTokens, nextToken, req, serviceVars>>
      /\ UNCHANGED <<authToken, sessionStorage>>

\* the user signs out
signoutClick ==
  /\ auth.isAuthenticated
  /\ signout
  /\ UNCHANGED <<now, refreshSecret, users, resetTokens, nextToken, issued, req, calls, serviceVars>>

\* the page is loaded: the store and the HTTP client start afresh, the
\* requests of the page before are gone, and AppInitializer dispatches
\* initializeAuth, which hands the stored token to the HTTP client
initializeAuth ==
  LET storedToken == IF localStorage.authToken # NoJwt THEN localStorage.authToken
                     ELSE sessionStorage.authToken
  IN  /\ calls # <<>>
      /\ auth' = [initialState EXCEPT !.token = storedToken]
      /\ authToken' = storedToken
      /\ calls' = <<>>
      /\ UNCHANGED <<now, refreshSecret, users, resetTokens, nextToken, issued, req, serviceVars>>
      /\ UNCHANGED <<localStorage, sessionStorage>>

SigninCredentials ==
  {[email |-> EmailA, password |-> InitialPassword],
   [email |-> EmailA, password |-> "hunter22"]}

\* the errors a call can end with: the server's answer, or no answer
Errors(c) == {Answer(c), NetworkError}

\* the client starts signed out, or signed in with the pair the server
\* issued for the account
InitClient ==
  /\ now = 0
  /\ refreshSecret = JWT_REFRESH_SECRET_DEFAULT
  /\ users = {Row(1, EmailA, bcryptHash(InitialPassword, "saltA"), FALSE)}
  /\ resetTokens = {}
  /\ nextToken = 1
  /\ req = [r \in Reqs |-> IdleReq]
  /\ \E held \in BOOLEAN :
       LET tokens == generateTokens(1, EmailA)
       IN  /\ auth = IF held THEN session([id |-> 1, email |-> EmailA], tokens)
                     ELSE initialState
           /\ issued = IF held THEN {tokens.accessToken, tokens.refreshToken} ELSE {}
  /\ authToken = NoJwt
  /\ localStorage = [authToken |-> NoJwt, refreshToken |-> NoJwt]
  /\ sessionStorage = [authToken |-> NoJwt]
  /\ calls = <<>>
  /\ InitService

NextClient ==
  \/ \E credentials \in SigninCredentials : signinSubmit(credentials)
  \/ apiRequest
  \/ signoutClick
  \/ initializeAuth
  \/ Tick
  \/ \E c \in DOMAIN calls : signinSucceeds(c)
  \/ \E c \in DOMAIN calls : \E resp \in Errors(c) : signinFails(c, resp)
  \/ \E c \in DOMAIN calls : resolved(c)
  \/ \E c \in DOMAIN calls : refreshBegins(c)
  \/ \E c \in DOMAIN calls : noRefreshToken(c)
  \/ \E c \in DOMAIN calls : \E resp \in Errors(c) : failed(c, resp)
  \/ \E c \in DOMAIN calls : refreshSucceeds(c)

SpecClient == InitClient /\ [][NextClient]_vars

----------------------------------------------------------------------------
(* PATCH /users/change-password/:id *)

\* the response of a handler whose request carried passwords
RespondedChange(q, status, body) ==
  [RespondedReset(q, status, body) EXCEPT !.currentPassword = ""]

\* parseInt of the route parameter and the body checks
changePasswordStart(r, id, currentPassword, newPassword) ==
  /\ Free(r)
  /\ LET q == [Arrive("changePassword") EXCEPT !.id = id, !.password = newPassword,
                                               !.currentPassword = currentPassword]
     IN  req' = [req EXCEPT ![r] =
           IF id = NoId
           THEN RespondedChange(q, 400, Error("Invalid user ID"))
           ELSE IF currentPassword = "" \/ newPassword = ""
           THEN RespondedChange(q, 400, Error("Both currentPassword and newPassword are required"))
           ELSE IF Len(newPassword) < 6
           THEN RespondedChange(q, 400, Error("New password must be at least 6 characters long"))
           ELSE [q EXCEPT !.pc = "change_findByPk"]]
  /\ UNCHANGED <<now, refreshSecret, users, resetTokens, nextToken, issued, clientVars, serviceVars>>

\* changePasswordQuery: const user = await User.findByPk(id)
changePasswordFindByPk(r) ==
  /\ req[r].pc = "change_findByPk"
  /\ LET q == req[r]
         user == findByPk(q.id)
     IN  req' = [req EXCEPT ![r] =
           IF user = NoRow
           THEN RespondedChange(q, 404, Error("User not found"))
           ELSE [q EXCEPT !.pc = "change_compare", !.user = user]]
  /\ UNCHANGED <<now, refreshSecret, users, resetTokens, nextToken, issued, clientVars, serviceVars>>

\* changePasswordQuery: await bcrypt.compare(currentPassword, user.password)
changePasswordCompare(r) ==
  /\ req[r].pc = "change_compare"
  /\ LET q == req[r]
     IN  req' = [req EXCEPT ![r] =
           IF ~bcryptCompare(q.currentPassword, q.user.password)
           THEN RespondedChange(q, 401, Error("Current password is incorrect"))
           ELSE [q EXCEPT !.pc = "change_update"]]
  /\ UNCHANGED <<now, refreshSecret, users, resetTokens, nextToken, issued, clientVars, serviceVars>>

\* changePasswordQuery: await bcrypt.hash(newPassword, saltRounds); await
\* user.update({ password }); return true; and the response
changePasswordUpdate(r) ==
  /\ req[r].pc = "change_update"
  /\ \E salt \in Salts :
       users' = {IF u.id = req[r].user.id
                 THEN [u EXCEPT !.password = bcryptHash(req[r].password, salt)]
                 ELSE u : u \in users}
  /\ req' = [req EXCEPT ![r] =
       [RespondedChange(req[r], 200, Message("Password changed successfully"))
          EXCEPT !.changed = TRUE]]
  /\ UNCHANGED <<now, refreshSecret, resetTokens, nextToken, issued, clientVars, serviceVars>>

CurrentPasswords == {InitialPassword, "hunter22", ""}

changePassword ==
  \E r \in Reqs :
    \/ \E id \in DeleteIds, currentPassword \in CurrentPasswords,
          newPassword \in NewPasswords :
         changePasswordStart(r, id, currentPassword, newPassword)
    \/ changePasswordFindByPk(r)
    \/ changePasswordCompare(r)
    \/ changePasswordUpdate(r)

\* reset-token issuance and password change, with the clock
NextChange ==
  \/ forgotPassword
  \/ changePassword
  \/ Tick

SpecChange == InitReset /\ [][NextChange]_vars

----------------------------------------------------------------------------
(* Every operation of the server on the one account, with well-formed      *)
(* requests that are handled one after the other                           *)

NextAccount ==
  \E r \in {1} :
    \/ signinStart(r, EmailA, InitialPassword)
    \/ signinGetUser(r)
    \/ signinCompare(r)
    \/ \E token \in issued : refreshTokenStart(r, token)
    \/ refreshTokenGetUser(r)
    \/ forgotPasswordStart(r, EmailA)
    \/ forgotPasswordGetUser(r)
    \/ forgotPasswordCreate(r)
    \/ \E token \in 1..(nextToken - 1) : resetPasswordStart(r, token, "hunter22")
    \/ resetPasswordFindByPk(r)
    \/ resetPasswordUpdate(r)
    \/ resetPasswordRemove(r)
    \/ changePasswordStart(r, 1, InitialPassword, "hunter22")
    \/ changePasswordFindByPk(r)
    \/ changePasswordCompare(r)
    \/ changePasswordUpdate(r)
    \/ deleteUserStart(r, 1)
    \/ deleteUserFindByPk(r)
    \/ deleteUserDestroy(r)
    \/ Tick

SpecAccount == InitReset /\ [][NextAccount]_vars

----------------------------------------------------------------------------
(* TMAxios: the retry of a failed request.  A request sent through the     *)
(* instance is answered or fails; the response interceptor hands a failure *)
(* to handleResponseError, which schedules the request again or rejects.   *)

\* requests that the application makes through the instance
MaxRequests == 2

\* a status that the server answers with, 0 for no response at all
ErrorStatuses == {0, 401, 500}

\* a request: config.url, where it stands, how often it was sent, the
\* request ids of the retryRequest calls that await it, when its delay ends
\* and what it failed with last
\* history: whether every failure so far was one that the constructor's
\* default condition retries, and whether it was scheduled again after 4xx
Request(url) ==
  [url |-> url, pc |-> "sent", sends |-> 1, frames |-> <<>>, wake |-> 0,
   status |-> 0, result |-> "", retryable |-> TRUE, resent4xx |-> FALSE]

\* generateRequestId: `${config.method || 'GET'}-${config.url || ''}-${Date.now()}`
generateRequestId(request) == [method |-> "GET", url |-> request.url, at |-> now]

\* this.retryCount.get(requestId) || 0
retryCountGet(requestId) ==
  IF \E e \in retryCount : e.id = requestId
  THEN (CHOOSE e \in retryCount : e.id = requestId).count
  ELSE 0

\* this.retryCount.set(requestId, count)
retryCountSet(requestId, count) ==
  {e \in retryCount : e.id # requestId} \cup {[id |-> requestId, count |-> count]}

\* the retryCondition of the constructor's default config
retryCondition(status) == status = 0 \/ (status >= 500 /\ status < 600)

\* shouldRetry: config.retry.retryCondition tells whether the config has one
shouldRetry(status, requestId) ==
  /\ retryCountGet(requestId) < config.retry.attempts
  /\ (~config.retry.retryCondition \/ retryCondition(status))

RECURSIVE Pow2(_)
Pow2(n) == IF n = 0 THEN 1 ELSE 2 * Pow2(n - 1)

\* the application sends a request
tmRequest ==
  /\ Len(requests) < MaxRequests
  /\ requests' = Append(requests, Request(ApiUrl))
  /\ UNCHANGED <<now, refreshSecret, users, resetTokens, nextToken, issued, req>>
  /\ UNCHANGED <<clientVars, config, retryCount, requestCache, gets>>

\* the request is answered 2xx: every retryRequest that awaits it deletes
\* its request id and returns the response
tmResponse(i) ==
  /\ requests[i].pc = "sent"
  /\ retryCount' = {e \in retryCount :
                      \A k \in DOMAIN requests[i].frames : requests[i].frames[k] # e.id}
  /\ requests' = [requests EXCEPT ![i].pc = "done", ![i].result = "resolved",
                                  ![i].status = 200, ![i].frames = <<>>]
  /\ UNCHANGED <<now, refreshSecret, users, resetTokens, nextToken, issued, req>>
  /\ UNCHANGED <<clientVars, config, requestCache, gets>>

\* the request fails: handleResponseError.  When shouldRetry says so,
\* retryRequest counts the attempt under the request id and waits for the
\* delay; otherwise the error is rejected, and the catch of each
\* retryRequest that awaits it hands it to handleResponseError again, which
\* decides the same
tmError(i, status) ==
  LET requestId == generateRequestId(requests[i])
      currentRetryCount == retryCountGet(requestId)
      request == [requests[i] EXCEPT
                    !.status = status,
                    !.retryable = @ /\ retryCondition(status)]
  IN  /\ requests[i].pc = "sent"
      /\ IF shouldRetry(status, requestId)
         THEN /\ retryCount' = retryCountSet(requestId, currentRetryCount + 1)
              /\ requests' = [requests EXCEPT ![i] =
                   [request EXCEPT
                      !.pc = "waiting",
                      !.wake = now + config.retry.delay * Pow2(currentRetryCount),
                      !.frames = Append(@, requestId),
                      !.resent4xx = @ \/ (status >= 400 /\ status < 500)]]
         ELSE /\ requests' = [requests EXCEPT ![i] =
                   [request EXCEPT !.pc = "done", !.result = "rejected",
                                   !.frames = <<>>]]
              /\ UNCHANGED retryCount
      /\ UNCHANGED <<now, refreshSecret, users, resetTokens, nextToken, issued, req>>
      /\ UNCHANGED <<clientVars, config, requestCache, gets>>

\* the delay is over: this.instance.request(config)
tmResend(i) ==
  /\ requests[i].pc = "waiting"
  /\ now >= requests[i].wake
  /\ requests' = [requests EXCEPT ![i].pc = "sent", ![i].sends = @ + 1]
  /\ UNCHANGED <<now, refreshSecret, users, resetTokens, nextToken, issued, req>>
  /\ UNCHANGED <<clientVars, config, retryCount, requestCache, gets>>

\* the instance is new TMAxios() or the exported httpService
InitRetry ==
  /\ now = 0
  /\ refreshSecret = JWT_REFRESH_SECRET_DEFAULT
  /\ users = {Row(1, EmailA, bcryptHash(InitialPassword, "saltA"), FALSE)}
  /\ resetTokens = {}
  /\ nextToken = 1
  /\ issued = {}
  /\ req = [r \in Reqs |-> IdleReq]
  /\ auth = initialState
  /\ authToken = NoJwt
  /\ localStorage = [authToken |-> NoJwt, refreshToken |-> NoJwt]
  /\ sessionStorage = [authToken |-> NoJwt]
  /\ calls = <<>>
  /\ \E hasCondition \in BOOLEAN : config = [retry |-> Retry(hasCondition)]
  /\ retryCount = {}
  /\ requests = <<>>
  /\ requestCache = NoCached
  /\ gets = <<>>

NextRetry ==
  \/ tmRequest
  \/ \E i \in DOMAIN requests : tmResponse(i)
  \/ \E i \in DOMAIN requests : \E status \in ErrorStatuses : tmError(i, status)
  \/ \E i \in DOMAIN requests : tmResend(i)
  \/ Tick

SpecRetry == InitRetry /\ [][NextRetry]_vars

----------------------------------------------------------------------------
(* NetworkService: the cache of the GETs.  One URL is asked for; the map   *)
(* has the entry of that URL or none.                                      *)

MaxGets == 3

\* cacheTimeout (5 minutes in the source, scaled)
cacheTimeout == 2

\* one call of networkService.get: the user of the store when it was made,
\* the header it left with if it went to the server, and what it returned
Get(user, authorization) ==
  [user |-> user, authorization |-> authorization, pc |-> "sent",
   result |-> "", fromCache |-> FALSE, data |-> NoBody, timestamp |-> 0, at |-> now]

\* processResponse: the NetworkResponse of an axios response
processResponse(resp) ==
  [data |-> resp.body, status |-> resp.status,
   success |-> resp.status >= 200 /\ resp.status < 300]

\* getCachedResponse: the entry, if there is one and it is younger than
\* cacheTimeout
getCachedResponse ==
  IF requestCache.stored /\ now - requestCache.timestamp < cacheTimeout
  THEN requestCache.data
  ELSE NoBody

\* cacheResponse
cacheResponse(response) == [data |-> response, timestamp |-> now, stored |-> TRUE]

\* networkService.get(url, options) up to its await: the cached response is
\* returned, or the entry that has expired is deleted and the request leaves
networkGet(cache) ==
  LET cached == IF cache THEN getCachedResponse ELSE NoBody
      get == Get(auth.user, requestHeaders(auth, authToken, ApiUrl, NoHeader))
  IN  /\ Len(gets) < MaxGets
      /\ IF cached # NoBody
         THEN /\ gets' = Append(gets, [get EXCEPT !.authorization = NoHeader,
                                                  !.pc = "done", !.result = "resolved",
                                                  !.fromCache = TRUE, !.data = cached,
                                                  !.timestamp = requestCache.timestamp])
              /\ UNCHANGED requestCache
         ELSE /\ gets' = Append(gets, [get EXCEPT !.pc = IF cache THEN "sent" ELSE "sentNoCache"])
              /\ requestCache' = IF cache THEN NoCached ELSE requestCache
      /\ UNCHANGED <<now, refreshSecret, users, resetTokens, nextToken, issued, req>>
      /\ UNCHANGED <<clientVars, config, retryCount, requests>>

\* networkService.get after its await: a successful response is cached and
\* returned, an error is thrown
networkGetResponse(i, resp) ==
  LET response == processResponse(resp)
  IN  /\ gets[i].pc \in {"sent", "sentNoCache"}
      /\ IF response.success
         THEN /\ gets' = [gets EXCEPT ![i].pc = "done", ![i].result = "resolved",
                                      ![i].data = response, ![i].timestamp = now]
              /\ requestCache' = IF gets[i].pc = "sent" THEN cacheResponse(response)
                                 ELSE requestCache
         ELSE /\ gets' = [gets EXCEPT ![i].pc = "done", ![i].result = "rejected"]
              /\ UNCHANGED requestCache
      /\ UNCHANGED <<now, refreshSecret, users, resetTokens, nextToken, issued, req>>
      /\ UNCHANGED <<clientVars, config, retryCount, requests>>

NextCache ==
  \/ \E cache \in BOOLEAN : networkGet(cache)
  \/ \E i \in DOMAIN gets :
       \E resp \in {authenticateJWT(gets[i].authorization), NetworkError} :
         networkGetResponse(i, resp)
  \/ signinSubmit([email |-> EmailA, password |-> InitialPassword])
  \/ \E c \in DOMAIN calls : signinSucceeds(c)
  \/ signoutClick
  \/ Tick

SpecCache == InitClient /\ [][NextCache]_vars

----------------------------------------------------------------------------
(* The routes behind authenticateJWT (business.route.ts)                   *)

\* router.get("/", authenticateJWT, getAllBusinesses): the middleware, which
\* awaits nothing, puts decoded.userId into req.user and calls next()
businessRoute(r, authHeader) ==
  /\ Free(r)
  /\ LET token == extractTokenFromHeader(authHeader)
         decoded == verifyAccessToken(token)
         resp == authenticateJWT(authHeader)
         q == [Arrive("business") EXCEPT
                 !.authorization = authHeader, !.gone = GoneId(token.userId),
                 !.userId = IF resp.status = 200 THEN decoded.userId ELSE NoId]
     IN  req' = [req EXCEPT ![r] = Responded(q, resp.status, resp.body)]
  /\ UNCHANGED <<now, refreshSecret, users, resetTokens, nextToken, issued, clientVars, serviceVars>>

\* sign-in, the protected routes and account deletion
NextProtected ==
  \E r \in Reqs :
    \/ signinStart(r, EmailA, InitialPassword)
    \/ signinGetUser(r)
    \/ signinCompare(r)
    \/ \E authHeader \in HeaderInputs : businessRoute(r, authHeader)
    \/ deleteUserStart(r, 1)
    \/ deleteUserFindByPk(r)
    \/ deleteUserDestroy(r)
    \/ Tick

SpecProtected == InitReset /\ [][NextProtected]_vars

----------------------------------------------------------------------------
(* The auth slice: its reducers in any order                               *)

\* the users a response or a caller hands to the slice
SliceUsers == {[id |-> 1, email |-> EmailA], [id |-> 2, email |-> EmailX]}

\* signup.fulfilled
signupFulfilled(state, payload) ==
  [state EXCEPT !.user = payload.user, !.token = payload.token,
                !.isAuthenticated = TRUE]

\* the signup thunk, when userRepository.createUser succeeds: it returns
\* { user, token: null }
signup(user) ==
  /\ ~auth.isAuthenticated
  /\ auth' = signupFulfilled(auth, [user |-> user, token |-> NoJwt])
  /\ UNCHANGED <<now, refreshSecret, users, resetTokens, nextToken, issued, req, serviceVars>>
  /\ UNCHANGED <<authToken, localStorage, sessionStorage, calls>>

\* the setUser reducer, with a user or null
setUser(payload) ==
  /\ auth' = [auth EXCEPT !.user = payload, !.isAuthenticated = payload # NoUser]
  /\ UNCHANGED <<now, refreshSecret, users, resetTokens, nextToken, issued, req, serviceVars>>
  /\ UNCHANGED <<authToken, localStorage, sessionStorage, calls>>

\* the page starts signed out; localStorage may hold the access token that a
\* refresh of an earlier page left in it
InitSlice ==
  /\ now = 0
  /\ refreshSecret = JWT_REFRESH_SECRET_DEFAULT
  /\ users = {Row(1, EmailA, bcryptHash(InitialPassword, "saltA"), FALSE)}
  /\ resetTokens = {}
  /\ nextToken = 1
  /\ req = [r \in Reqs |-> IdleReq]
  /\ auth = initialState
  /\ authToken = NoJwt
  /\ \E stored \in BOOLEAN :
       LET tokens == generateTokens(1, EmailA)
       IN  /\ localStorage = [authToken |-> IF stored THEN tokens.accessToken ELSE NoJwt,
                              refreshToken |-> IF stored THEN tokens.refreshToken ELSE NoJwt]
           /\ issued = IF stored THEN {tokens.accessToken, tokens.refreshToken} ELSE {}
  /\ sessionStorage = [authToken |-> NoJwt]
  /\ calls = <<>>
  /\ InitService

NextSlice ==
  \/ \E credentials \in SigninCredentials : signinSubmit(credentials)
  \/ \E c \in DOMAIN calls : signinSucceeds(c)
  \/ \E c \in DOMAIN calls : \E resp \in Errors(c) : signinFails(c, resp)
  \/ \E user \in SliceUsers : signup(user)
  \/ \E payload \in SliceUsers \cup {NoUser} : setUser(payload)
  \/ initializeAuth
  \/ signoutClick
  \/ Tick

SpecSlice == InitSlice /\ [][NextSlice]_vars

----------------------------------------------------------------------------
(* Properties *)

Done(r, kind) == req[r].kind = kind /\ req[r].pc = "done"

\* the JWT a verify-token request carried in its Authorization header
Bearer(r) == extractTokenFromHeader(req[r].authorization)

\* C1: token kinds are never interchangeable.  Every access token issued is
\* rejected by verifyRefreshToken and every refresh token issued is rejected
\* by verifyAccessToken, at any time; a refresh-token request carrying an
\* access token is answered 401, and a verify-token request carrying a
\* refresh token is answered 401 TOKEN_INVALID.
C1_TokenKindsNotInterchangeable ==
  /\ \A t \in issued : t.type = "access" => verifyRefreshToken(t) = NoJwt
  /\ \A t \in issued : t.type = "refresh" => verifyAccessToken(t) = NoJwt
  /\ \A r \in Reqs :
       req[r].kind = "refreshToken" /\ req[r].refreshToken.type = "access"
         => /\ req[r].pc = "done"
            /\ req[r].status = 401
  /\ \A r \in Reqs :
       req[r].kind = "verifyToken" /\ Bearer(r).type = "refresh"
         => /\ req[r].pc = "done"
            /\ req[r].status = 401
            /\ req[r].body = ErrorCode("Invalid or expired token", "TOKEN_INVALID")

\* C1 witness: with both secrets set to the same value, an access token that
\* has not expired was sent to refresh-token and a refresh token that has not
\* expired was sent to verify-token, and both were answered 401.
C1_Witness ==
  /\ refreshSecret = JWT_SECRET
  /\ \E r1 \in Reqs, r2 \in Reqs :
       /\ Done(r1, "refreshToken")
       /\ req[r1].refreshToken.type = "access"
       /\ clockTimestamp < req[r1].refreshToken.exp
       /\ req[r1].status = 401
       /\ Done(r2, "verifyToken")
       /\ Bearer(r2).type = "refresh"
       /\ clockTimestamp < Bearer(r2).exp
       /\ req[r2].status = 401

\* the lifetime of a token of this kind, in seconds
Lifetime(type) == IF type = "access" THEN JWT_EXPIRES_IN ELSE JWT_REFRESH_EXPIRES_IN
\* the verifier of this kind
Verify(t) == IF t.type = "access" THEN verifyAccessToken(t) ELSE verifyRefreshToken(t)
\* the expiry instant of a token on the clock of Date.now()
ExpiryInstant(t) == t.exp * TicksPerSecond

PairedAccessToken(token) ==
  [token EXCEPT !.type = "access", !.key = JWT_SECRET, !.exp = token.iat + JWT_EXPIRES_IN]

\* C7: a refresh-token request answered 200 returns an access token that
\* differs from the one the client held (the one issued together with the
\* refresh token it sent) and a refresh token that differs from the one sent.
C7_RefreshRotates ==
  \A r \in Reqs :
    Done(r, "refreshToken") /\ req[r].status = 200
      => /\ req[r].body.data.accessToken # PairedAccessToken(req[r].refreshToken)
         /\ req[r].body.data.refreshToken # req[r].refreshToken

\* C8: a soft-deleted account never authenticates.  A request that arrives
\* after the account it is about was soft-deleted is answered 401: a sign-in
\* with the account's e-mail (whatever the password), a verify-token with an
\* access token of the account (USER_NOT_FOUND while the token is unexpired),
\* a refresh-token with a refresh token of the account (USER_NOT_FOUND while
\* the token is unexpired); none of these responses carries a token.
C8_DeletedNeverAuthenticates ==
  \A r \in Reqs :
    req[r].gone =>
      /\ req[r].status # 200
      /\ Done(r, "signin") /\ emailRegex(req[r].email) /\ req[r].password # ""
           => /\ req[r].status = 401
              /\ DOMAIN req[r].body = {"error"}
      /\ Done(r, "verifyToken") /\ Bearer(r) \in issued
           => /\ req[r].status = 401
              /\ Bearer(r).type = "access" /\ clockTimestamp < Bearer(r).exp
                   => req[r].body = ErrorCode("User not found", "USER_NOT_FOUND")
      /\ Done(r, "refreshToken") /\ req[r].refreshToken \in issued
           => /\ req[r].status = 401
              /\ req[r].refreshToken.type = "refresh" /\ clockTimestamp < req[r].refreshToken.exp
                   => req[r].body = ErrorCode("User not found", "USER_NOT_FOUND")

\* C8 witness: after the account was soft-deleted, a sign-in with its e-mail
\* and its password was answered 401 and a refresh with an unexpired refresh
\* token of the account was answered 401 USER_NOT_FOUND.
C8_Witness ==
  \E r1 \in Reqs, r2 \in Reqs :
    /\ Done(r1, "signin") /\ req[r1].gone
    /\ req[r1].email = EmailA /\ req[r1].password = InitialPassword
    /\ req[r1].status = 401
    /\ Done(r2, "refreshToken") /\ req[r2].gone
    /\ req[r2].refreshToken.type = "refresh"
    /\ clockTimestamp < req[r2].refreshToken.exp
    /\ req[r2].body = ErrorCode("User not found", "USER_NOT_FOUND")

\* a finished sign-in with a well-formed e-mail that no live account has
SigninUnknownEmail(r) ==
  /\ Done(r, "signin")
  /\ emailRegex(req[r].email) /\ req[r].password # ""
  /\ ~req[r].found

\* a finished sign-in for a known e-mail with a password that is not the account's
SigninWrongPassword(r) ==
  /\ Done(r, "signin")
  /\ req[r].found
  /\ \E u \in users : u.email = req[r].email /\ ~bcryptCompare(req[r].password, u.password)

\* C9: sign-in does not tell an unknown e-mail from a wrong password: the two
\* responses have the same status, 401, and the same body,
\* {error: "Invalid email or password"}, and carry no token.
C9_SigninNoLeak ==
  \A r1 \in Reqs, r2 \in Reqs :
    SigninUnknownEmail(r1) /\ SigninWrongPassword(r2)
      => /\ req[r1].status = req[r2].status
         /\ req[r1].body = req[r2].body
         /\ req[r1].status = 401
         /\ req[r1].body = Error("Invalid email or password")

\* C9 witness: both kinds of failed sign-in have been answered.
C9_Witness ==
  \E r1 \in Reqs, r2 \in Reqs :
    /\ SigninUnknownEmail(r1) /\ req[r1].email = EmailX
    /\ SigninWrongPassword(r2) /\ req[r2].email = EmailA
    /\ req[r1].status = 401 /\ req[r2].status = 401

\* a reset-password handler in slot r got a user id from
\* verifyPasswordResetTokenQuery for the token it carries
Verified(r) == req[r].kind = "resetPassword" /\ req[r].userId # NoId

\* this step starts a reset-password handler in slot r
StartsReset(r) == Free(r) /\ req'[r] # req[r] /\ req'[r].kind = "resetPassword"

\* C2: a reset token is single-use.  Once verifyPasswordResetTokenQuery has
\* returned the user id for a token, every later call for that token returns
\* null, whatever happens in between.
C2_SingleUse ==
  [][\A r1 \in Reqs, r2 \in Reqs :
       /\ r1 # r2
       /\ Verified(r1)
       /\ StartsReset(r2)
       /\ req'[r2].token = req[r1].token
       => req'[r2].userId = NoId]_vars

\* C3: reset-token consumption is at most once under concurrency.  Of two
\* reset-password requests that carry the same token, at most one changes the
\* password.
C3_AtMostOnce ==
  \A r1 \in Reqs, r2 \in Reqs :
    /\ r1 # r2
    /\ req[r1].kind = "resetPassword" /\ req[r2].kind = "resetPassword"
    /\ req[r1].token = req[r2].token
    => ~(req[r1].changed /\ req[r2].changed)

\* this step sends the response 200 of the reset-password handler in slot r
ResetAnswers200(r) ==
  /\ Verified(r) /\ req[r].pc # "done"
  /\ req'[r].pc = "done" /\ req'[r].status = 200

\* C4: when a reset-password answers 200 for user u, no reset token of u is
\* left in the registry; and a second call with the same token, made after
\* that answer, is answered 400.
C4_NoTokenSurvivesReset ==
  [][/\ \A r \in Reqs :
          ResetAnswers200(r) => \A e \in resetTokens' : e.userId # req[r].userId
     /\ \A r1 \in Reqs, r2 \in Reqs :
          /\ r1 # r2
          /\ Done(r1, "resetPassword") /\ req[r1].status = 200
          /\ StartsReset(r2)
          /\ req'[r2].token = req[r1].token
          => req'[r2].pc = "done" /\ req'[r2].status = 400]_vars

\* the reset-password handler in slot r passed the checks of the request body
\* and called verifyPasswordResetTokenQuery
CalledVerify(r) ==
  /\ req[r].kind = "resetPassword"
  /\ req[r].body \notin {Error("Reset token and new password are required"),
                         Error("New password must be at least 6 characters long")}

\* C5: a reset token whose expiry has passed is never accepted.  A call of
\* verifyPasswordResetTokenQuery for a registered token whose expiry has
\* passed returns null and removes the entry; a call for a registered token
\* whose expiry has not passed leaves the entry in the registry.
C5_ExpiredRejected ==
  [][\A r \in Reqs :
       LET tokenData == resetTokensGet(req'[r].token)
       IN  StartsReset(r) /\ CalledVerify(r)' /\ tokenData # NoEntry
             => IF tokenData.expires < now
                THEN /\ req'[r].pc = "done"
                     /\ req'[r].status = 400
                     /\ req'[r].body = Error("Invalid or expired reset token")
                     /\ tokenData \notin resetTokens'
                ELSE tokenData \in resetTokens']_vars

\* C5 witness: the only reset token ever created is gone from the registry
\* though no password was ever replaced, and a reset-password carrying it was
\* answered 400: verifyPasswordResetTokenQuery removed it as expired.
C5_Witness ==
  /\ nextToken = 2
  /\ resetTokens = {}
  /\ \A u \in users : bcryptCompare(InitialPassword, u.password)
  /\ \A r \in Reqs : ~req[r].changed
  /\ \E r \in Reqs :
       /\ Done(r, "resetPassword")
       /\ req[r].token = 1
       /\ req[r].body = Error("Invalid or expired reset token")
       /\ now > RESET_TTL

\* C10: forgot-password with a well-formed e-mail answers 200 with a body of
\* the shape {message}, whether or not the e-mail belongs to an account.
C10_ForgotAlways200 ==
  \A r \in Reqs :
    Done(r, "forgotPassword") /\ emailRegex(req[r].email)
      => /\ req[r].status = 200
         /\ DOMAIN req[r].body = {"message"}

\* C10 witness: a forgot-password for the e-mail of an account and one for an
\* e-mail without account have both been answered.
C10_Witness ==
  \E r1 \in Reqs, r2 \in Reqs :
    /\ Done(r1, "forgotPassword") /\ req[r1].found
    /\ Done(r2, "forgotPassword") /\ ~req[r2].found /\ emailRegex(req[r2].email)
    /\ req[r1].status = 200 /\ req[r2].status = 200

\* C11: forgot-password does not reveal account existence.  Of two finished
\* forgot-password requests with well-formed e-mails, one whose lookup found
\* an account and one whose lookup found none, the responses are the same in
\* status and in body.
C11_ForgotNoLeak ==
  \A r1 \in Reqs, r2 \in Reqs :
    /\ Done(r1, "forgotPassword") /\ req[r1].found
    /\ Done(r2, "forgotPassword") /\ ~req[r2].found /\ emailRegex(req[r2].email)
    => /\ req[r1].status = req[r2].status
       /\ req[r1].body = req[r2].body

\* the user objects the response of the request in slot r carries
UsersSent(r) ==
  LET body == req[r].body
  IN  IF "data" \notin DOMAIN body THEN {}
      ELSE IF req[r].kind \in {"signin", "verifyToken", "refreshToken"} THEN {body.data.user}
      ELSE IF req[r].kind = "getAllUsers" THEN body.data
      ELSE {body.data}

\* a user object carries a password hash
HasPassword(u) == "password" \in DOMAIN u /\ u.password # NoHash

AtMostOneLivePerEmail ==
  \A u1 \in users, u2 \in users :
    ~u1.deletedAt /\ ~u2.deletedAt /\ u1.email = u2.email => u1 = u2

\* a sign-up inserted a row exactly when it was answered 201, and the 201
\* carries the inserted user without its password
SignupAnswers ==
  \A r \in Reqs :
    Done(r, "createUser") =>
      /\ req[r].created <=> req[r].status = 201
      /\ req[r].found => req[r].status = 409
      /\ req[r].status = 201 =>
           /\ DOMAIN req[r].body.data = {"id", "email"}
           /\ req[r].body.data.email = req[r].email
           /\ \E u \in users : u.id = req[r].body.data.id

\* this step is the lookup of the sign-up in slot r, made while a live account
\* has the e-mail of the request
LooksUpTaken(r) ==
  /\ req[r].pc = "create_getUser"
  /\ req'[r] # req[r]
  /\ \E u \in users : u.email = req[r].email /\ ~u.deletedAt

\* C13: sign-up rejects a duplicate e-mail.  A sign-up that looks the e-mail
\* up while a live account has it answers 409 and creates no record; at most
\* one live record exists per e-mail after any sequence of sign-ups, two
\* concurrent sign-ups for the same e-mail included; a successful sign-up
\* answers 201 with the user without its password.
C13_SignupRejectsDuplicate ==
  /\ [](AtMostOneLivePerEmail /\ SignupAnswers)
  /\ [][\A r \in Reqs :
          LooksUpTaken(r) => /\ req'[r].pc = "done"
                             /\ req'[r].status = 409
                             /\ users' = users]_vars

\* C13 witness: of two concurrent sign-ups for the same new e-mail, neither of
\* which found an account, one was answered 201 and the other created nothing.
C13_Witness ==
  \E r1 \in Reqs, r2 \in Reqs :
    /\ Done(r1, "createUser") /\ Done(r2, "createUser")
    /\ req[r1].email = EmailX /\ req[r2].email = EmailX
    /\ ~req[r1].taken /\ ~req[r2].taken
    /\ req[r1].status = 201
    /\ ~req[r2].found /\ req[r2].status = 500 /\ ~req[r2].created
    /\ Cardinality({u \in users : u.email = EmailX}) = 1

\* the refresh exchanges that are on the wire
RefreshesInFlight == {c \in DOMAIN calls : calls[c].url = RefreshUrl /\ InFlight(c)}

\* C14: at most one refresh-token exchange is in flight at a time per
\* client, however many requests were answered 401.
C14_OneRefreshInFlight == Cardinality(RefreshesInFlight) <= 1

\* C15: two requests answered 401 while one handler is already awaiting its
\* refresh end alike: it never happens that one of them is issued again and
\* succeeds while the handler of the other signs the user out.
C15_ConcurrentOutcomesAgree ==
  \A c \in DOMAIN calls :
    LET d == calls[c].peer
    IN  d # 0 =>
          /\ ~(calls[c].result = "resolved" /\ calls[d].ended)
          /\ ~(calls[d].result = "resolved" /\ calls[c].ended)

\* signed out, and no token left in the store, in the HTTP client or in the
\* browser's storage
SignedOutClean ==
  /\ ~auth.isAuthenticated
  /\ auth.token = NoJwt /\ auth.accessToken = NoJwt /\ auth.refreshToken = NoJwt
  /\ authToken = NoJwt
  /\ localStorage.authToken = NoJwt /\ localStorage.refreshToken = NoJwt
  /\ sessionStorage.authToken = NoJwt

\* C16: sign-out supersedes a refresh that is in flight.  When the client
\* is signed out with no token left and the answer to a refresh exchange
\* arrives, the client is still signed out with no token left.
C16_SignoutSupersedesRefresh ==
  [][(SignedOutClean /\ \E c \in RefreshesInFlight :
                            c \in DOMAIN calls' /\ calls'[c].pc = "done")
       => SignedOutClean']_vars

\* the refresh exchanges made, directly or not, on behalf of call o
RefreshesFor(o) == {c \in DOMAIN calls : o \in Ancestors(c)}

\* C17: for a request of the application the client makes at most one
\* refresh exchange, whatever the server answers.
C17_OneRefreshPerRequest ==
  \A o \in DOMAIN calls :
    calls[o].parent = 0 => Cardinality(RefreshesFor(o)) <= 1

SessionEnded ==
  /\ ~auth.isAuthenticated
  /\ auth.user = NoUser
  /\ auth.token = NoJwt /\ auth.accessToken = NoJwt /\ auth.refreshToken = NoJwt
  /\ requestHeaders(auth, authToken, ApiUrl, NoHeader) = NoHeader
  /\ localStorage.authToken = NoJwt /\ localStorage.refreshToken = NoJwt
  /\ sessionStorage.authToken = NoJwt

\* C19: when the handler of a 401 on a non-auth endpoint finds no refresh
\* token, or its refresh exchange fails, the session has ended afterwards.
C19_HardSessionEnd ==
  [][\A c \in DOMAIN calls :
       (/\ c \in DOMAIN calls'
        /\ ~IsAuthEndpoint(calls[c].url)
        /\ ~calls[c].ended
        /\ calls'[c].ended) => SessionEnded']_vars

\* C20: after a sign-in that the server answers with 200 the client holds
\* the access token and the refresh token of the answer in the auth state
\* and the HTTP client and in localStorage, and the next request to a
\* protected route carries that access token.
C20_SigninKeepsTokens ==
  [][\A c \in DOMAIN calls :
       (/\ calls[c].url = SigninUrl
        /\ InFlight(c)
        /\ c \in DOMAIN calls'
        /\ calls'[c].result = "resolved") =>
         LET pair == Answer(c).body.data
         IN  /\ auth'.isAuthenticated
             /\ pair.accessToken \in {auth'.token, auth'.accessToken}
             /\ auth'.refreshToken = pair.refreshToken
             /\ authToken' = pair.accessToken
             /\ localStorage'.authToken = pair.accessToken
             /\ localStorage'.refreshToken = pair.refreshToken
             /\ requestHeaders(auth', authToken', ApiUrl, NoHeader)
                  = Header("Bearer", pair.accessToken)]_vars

\* the access token that the client holds: the store's, or the one that was
\* handed to the HTTP client
HeldAccessToken ==
  IF auth.accessToken # NoJwt THEN auth.accessToken
  ELSE IF auth.token # NoJwt THEN auth.token
  ELSE authToken

\* call c leaves in this step: it is new, or it is issued again
Leaves(c) ==
  /\ c \in DOMAIN calls'
  /\ \/ c \notin DOMAIN calls
     \/ calls[c].pc = "refreshing" /\ calls'[c].pc = "resent"

\* C21: while the client holds an access token, a request that leaves for
\* one of the four unauthenticated endpoints carries no Authorization header
\* and every other request carries Bearer and the held access token.
C21_DecoratedExceptAuthEndpoints ==
  [][\A c \in 1..MaxCalls :
       (Leaves(c) /\ HeldAccessToken' # NoJwt) =>
          calls'[c].authorization =
            IF IsAuthEndpoint(calls'[c].url) THEN NoHeader
            ELSE Header("Bearer", HeldAccessToken')]_vars

\* request r is a change-password that answers 200 in this step
ChangeAnswers200(r) ==
  /\ req[r].kind = "changePassword"
  /\ req[r].pc # "done"
  /\ req'[r].pc = "done"
  /\ req'[r].status = 200

\* C25: a successful password change invalidates the reset tokens of the
\* account.  Once PATCH /users/change-password/:id has answered 200, no
\* reset token issued for that user is accepted by
\* verifyPasswordResetTokenQuery.
C25_ChangeInvalidatesResetTokens ==
  [][\A r \in Reqs :
       ChangeAnswers200(r) =>
         \A e \in resetTokens' :
           e.userId = req[r].id => verifyPasswordResetTokenQuery(e.token)' = NoId]_vars

\* request r is a reset-password that is rejected with 400 in this step
ResetRejected(r) ==
  /\ Free(r)
  /\ req'[r] # req[r]
  /\ req'[r].kind = "resetPassword"
  /\ req'[r].status = 400

\* C24: a POST /auth/reset-password that is rejected with 400 changes
\* nothing: every user's password hash is as before and no reset token that
\* has not expired is removed from the registry.
C24_RejectedResetChangesNothing ==
  [][\A r \in Reqs :
       ResetRejected(r) =>
         /\ users' = users
         /\ \A e \in resetTokens : ~(e.expires < now) => e \in resetTokens']_vars

\* a reset with a password that is too short was rejected, and the token it
\* carried is still accepted
C24_Witness ==
  \E r \in Reqs :
    /\ Done(r, "resetPassword")
    /\ req[r].status = 400
    /\ req[r].body = Error("New password must be at least 6 characters long")
    /\ verifyPasswordResetTokenQuery(req[r].token) # NoId

\* C26: POST /auth/reset-password answers 200 only if the handler replaced
\* the password of the token's user.
C26_SuccessOnlyIfReset ==
  \A r \in Reqs :
    (Done(r, "resetPassword") /\ req[r].status = 200) => req[r].changed

\* C22: signed tokens are stateless.  No step of the server other than the
\* passing of time changes what verifyAccessToken and verifyRefreshToken
\* answer for a token that was issued, and a refresh token that has been
\* exchanged still verifies until it expires.
C22_TokensStateless ==
  /\ [](\A r \in Reqs :
          (/\ Done(r, "refreshToken")
           /\ req[r].status = 200
           /\ clockTimestamp < req[r].refreshToken.exp)
            => verifyRefreshToken(req[r].refreshToken) # NoJwt)
  /\ [][now' = now =>
          \A t \in issued :
            /\ verifyAccessToken(t)' = verifyAccessToken(t)
            /\ verifyRefreshToken(t)' = verifyRefreshToken(t)]_vars

\* a refresh token was exchanged, the password of its user was replaced
\* since, and both that token and an access token still verify
C22_Witness ==
  /\ \E r \in Reqs :
       /\ Done(r, "refreshToken")
       /\ req[r].status = 200
       /\ verifyRefreshToken(req[r].refreshToken) # NoJwt
  /\ \E t \in issued : verifyAccessToken(t) # NoJwt
  /\ \E u \in users : u.password.plain = "hunter22"

\* C23: retries are bounded.  A request whose every attempt failed without
\* a response or with 5xx is sent at most once and retry.attempts times
\* again.
C23_RetriesBounded ==
  \A i \in DOMAIN requests :
    requests[i].retryable => requests[i].sends <= 1 + config.retry.attempts

\* C27: the exported httpService does not send a request again that was
\* answered 4xx.
C27_No4xxRetry ==
  config.retry = Retry(FALSE) => \A i \in DOMAIN requests : ~requests[i].resent4xx

\* C28: a GET that was answered from the cache got a response that was
\* stored less than cacheTimeout before, and stored for the user who is
\* signed in when it is answered: none is answered from the cache to a
\* client that has signed out since
C28_CacheWithinSession ==
  \A i \in DOMAIN gets :
    gets[i].fromCache =>
      /\ gets[i].at - gets[i].timestamp < cacheTimeout
      /\ gets[i].user # NoUser

\* C29: authenticateJWT lets a request through only when the account that
\* the access token names is a live one: a request with the token of a
\* deleted user is not answered 200
C29_OnlyLiveAccounts ==
  \A r \in Reqs :
    (Done(r, "business") /\ req[r].status = 200) =>
      /\ ~req[r].gone
      /\ req[r].userId # NoId

\* C30: whenever the auth slice says isAuthenticated, it holds a user and an
\* access token, and the HTTP client is configured with that token
C30_AuthenticatedHasUserAndToken ==
  auth.isAuthenticated =>
    /\ auth.user # NoUser
    /\ auth.token # NoJwt
    /\ authToken = auth.token

====
